---- MODULE Spec2Model ----
(***************************************************************************)
(* keikoproj/cluster-validator: the concurrent validation engine.          *)
(*                                                                         *)
(* The repository holds two revisions of Validator.Validate:               *)
(*   "summary"   pkg/client/validator.go: one task per ClusterResource,    *)
(*               summaries travel on the v.Waiter.summary channel and      *)
(*               Validate returns a ValidationError{Status, Message,       *)
(*               Summaries};                                               *)
(*   "endpoints" unnamed/part_004: tasks for ClusterResource and           *)
(*               ClusterEndpoint objects, no summary channel, Validate     *)
(*               returns the first error (or nil).                         *)
(* The variable variant names the revision a behaviour runs.               *)
(*                                                                         *)
(* Strings that the code matches against patterns or compares ignoring     *)
(* case are sequences of one-character strings; map keys and resource      *)
(* names, which the code only compares for equality, are TLA+ strings.     *)
(***************************************************************************)
EXTENDS Integers, Sequences, FiniteSets, TLC

(* ----------------------------- bounds ---------------------------------- *)

\* Rounds a task may perform in a behaviour (the code has no such limit).
MaxRounds == 3

\* Largest threshold value a configuration of the model declares.
MaxThreshold == 2
\* Instances in a list the validators are applied to directly.
MaxInstances == 2

(* ----------------------------- strings --------------------------------- *)

\* strings.ToLower on one character, for the letters the model's data uses.
LowerChar(c) ==
    CASE c = "A" -> "a"
      [] c = "D" -> "d"
      [] c = "F" -> "f"
      [] c = "K" -> "k"
      [] c = "P" -> "p"
      [] c = "R" -> "r"
      [] c = "T" -> "t"
      [] OTHER -> c

ToLower(s) == [i \in 1..Len(s) |-> LowerChar(s[i])]

\* strings.EqualFold
\* EqualFold comparing byte by byte: case matters.
EqualFoldExact(a, b) == a = b

EqualFold(a, b) == ToLower(a) = ToLower(b)

\* gobwas/glob Match for patterns made of literals, '*' and '?' (compiled
\* without separators, so '*' matches any run of characters).
RECURSIVE globMatch(_, _)
globMatch(p, s) ==
    IF p = <<>> THEN s = <<>>
    ELSE IF Head(p) = "*"
         THEN globMatch(Tail(p), s) \/ (s # <<>> /\ globMatch(p, Tail(s)))
         ELSE /\ s # <<>>
              /\ (Head(p) = "?" \/ Head(p) = Head(s))
              /\ globMatch(Tail(p), Tail(s))

\* patternMatch without the two strings.ToLower calls.
patternMatchCaseSensitive(pattern, str) == globMatch(pattern, str)

patternMatch(pattern, str) == globMatch(ToLower(pattern), ToLower(str))

\* matchInPatterns with the flag assigned from each pattern in turn, so that
\* the last pattern of the list decides.
matchInPatternsLastDecides(patterns, str) ==
    /\ patterns # <<>>
    /\ patternMatch(patterns[Len(patterns)], str)

\* The loop of matchInPatterns: the flag starts false, is set on every pattern
\* that matches and is never cleared.
RECURSIVE matchInPatternsFrom(_, _, _)
matchInPatternsFrom(condition, patterns, str) ==
    IF patterns = <<>> THEN condition
    ELSE matchInPatternsFrom(
             IF patternMatch(Head(patterns), str) THEN TRUE ELSE condition,
             Tail(patterns), str)

matchInPatterns(patterns, str) ==
    matchInPatternsFrom(FALSE, patterns, str)

\* A *SelectionScope; nil marks the nil pointer.
Scope(include, exclude) == [nil |-> FALSE, Include |-> include, Exclude |-> exclude]

NilScope == [nil |-> TRUE, Include |-> <<>>, Exclude |-> <<>>]

\* inSelectionScope without the test for the empty string: "" goes through
\* the include and exclude patterns like any other candidate.
inSelectionScopeNoEmptyShortcut(s, str) ==
    IF s.nil THEN TRUE
    ELSE LET included == \E i \in 1..Len(s.Include) : patternMatch(s.Include[i], str)
             excluded == \E i \in 1..Len(s.Exclude) : patternMatch(s.Exclude[i], str)
         IN  IF excluded THEN FALSE ELSE included

\* inSelectionScope with the include loop run last: a match of an include
\* pattern turns an excluded candidate on again.
inSelectionScopeIncludeWins(s, str) ==
    IF s.nil \/ str = <<>> THEN TRUE
    ELSE \E i \in 1..Len(s.Include) : patternMatch(s.Include[i], str)

inSelectionScope(s, str) ==
    IF s.nil \/ str = <<>> THEN TRUE
    ELSE LET included == \E i \in 1..Len(s.Include) : patternMatch(s.Include[i], str)
             excluded == \E i \in 1..Len(s.Exclude) : patternMatch(s.Exclude[i], str)
         IN  IF excluded THEN FALSE ELSE included

(* ------------------------- resource documents -------------------------- *)

\* An unstructured.Unstructured is held by what the code reads of it: its
\* namespace and name, and the outcome (val, ok, err) of extracting the
\* declared field path and the declared conditions path.
Found(v)     == [val |-> v, ok |-> TRUE, err |-> FALSE]
NotFound(v)  == [val |-> v, ok |-> FALSE, err |-> FALSE]

\* The path leads through a value of the wrong type: the zero value, not
\* found, and the error.
Mistyped(v)  == [val |-> v, ok |-> FALSE, err |-> TRUE]

\* One entry of a conditions list. statusIsString is false when the entry
\* has no "status" key or holds a value there that is not a string.
Condition(t, s) == [type |-> t, status |-> s, statusIsString |-> TRUE]

ConditionNoStatus(t) == [type |-> t, status |-> <<>>, statusIsString |-> FALSE]

podRunning ==
    [namespace |-> <<"k", "s">>, name |-> <<"a">>,
     phase |-> Found(<<"R", "u", "n">>), conditions |-> NotFound(<<>>)]
podPending ==
    [namespace |-> <<"k", "s">>, name |-> <<"p">>,
     phase |-> Found(<<"P", "e", "n">>), conditions |-> NotFound(<<>>)]
podDebug ==
    [namespace |-> <<"k", "s">>, name |-> <<"d", "p">>,
     phase |-> Found(<<"P", "e", "n">>), conditions |-> NotFound(<<>>)]
podOther ==
    [namespace |-> <<"d", "f">>, name |-> <<"a">>,
     phase |-> NotFound(<<>>), conditions |-> NotFound(<<>>)]
nodeReady ==
    [namespace |-> <<>>, name |-> <<"n", "1">>,
     phase |-> NotFound(<<>>),
     conditions |-> Found(<<Condition(<<"R", "d">>, <<"T">>)>>)]
nodeNotReady ==
    [namespace |-> <<>>, name |-> <<"n", "2">>,
     phase |-> NotFound(<<>>),
     conditions |-> Found(<<Condition(<<"R", "d">>, <<"F">>)>>)]

\* Further documents a List call may return, which the validators are
\* applied to directly.
podMistyped ==
    [namespace |-> <<"k", "s">>, name |-> <<"m">>,
     phase |-> Mistyped(<<>>), conditions |-> Mistyped(<<>>)]
nodeTwice ==
    [namespace |-> <<>>, name |-> <<"n", "3">>,
     phase |-> NotFound(<<>>),
     conditions |-> Found(<<Condition(<<"R", "d">>, <<"T">>),
                            Condition(<<"R", "d">>, <<"F">>)>>)]
nodeOtherType ==
    [namespace |-> <<>>, name |-> <<"n", "4">>,
     phase |-> Found(<<"R", "u", "n">>),
     conditions |-> Found(<<Condition(<<"M", "p">>, <<"T">>)>>)]
nodeNoStatus ==
    [namespace |-> <<>>, name |-> <<"n", "5">>,
     phase |-> NotFound(<<>>),
     conditions |-> Found(<<ConditionNoStatus(<<"R", "d">>)>>)]

namespacedName(r) ==
    IF r.namespace = <<>> THEN r.name ELSE r.namespace \o <<"/">> \o r.name

\* groupVersion is the apiVersion already split on "/" (strings.Split).
groupVersionResource(groupVersion, resource) ==
    [Group    |-> IF Len(groupVersion) = 2 THEN groupVersion[1] ELSE "",
     Version  |-> IF Len(groupVersion) = 1 THEN groupVersion[1]
                  ELSE IF Len(groupVersion) = 2 THEN groupVersion[2] ELSE "",
     Resource |-> resource]

\* An item of metrics.k8s.io/v1beta1 pods: it has a name and no status.
podMetrics ==
    [namespace |-> <<"k", "s">>, name |-> <<"a">>,
     phase |-> NotFound(<<>>), conditions |-> NotFound(<<>>)]

\* The item lists a List call of the cluster API may return for the
\* resource's GroupVersionResource.
ListResults(r) ==
    IF r.Name = "pods" /\ r.APIVersion = <<"v1">>
    THEN {<<podRunning, podDebug, podOther>>, <<podRunning, podPending>>}
    ELSE IF r.Name = "pods" THEN {<<podMetrics>>}
    ELSE {<<nodeReady>>, <<nodeReady, nodeNotReady>>}

(* ------------------------- declared checks ----------------------------- *)

\* v1alpha1.ValidationConfiguration (the thresholds; 0 is Go's zero value
\* of an absent entry).
Cfg(s, f) == [SuccessThreshold |-> s, FailureThreshold |-> f]

NoCfg == Cfg(0, 0)

podsResource(required, cfg) ==
    [kind |-> "ClusterResource", Name |-> "pods", APIVersion |-> <<"v1">>,
     Required |-> required, Configuration |-> cfg,
     Namespaces |-> Scope(<< <<"K", "s">> >>, <<>>),
     Names |-> Scope(<< <<"*">> >>, << <<"d", "*">> >>),
     Fields |-> << [Path |-> ".status.phase", Values |-> << <<"r", "u", "n">> >>] >>,
     Conditions |-> <<>>]

nodesResource(required, cfg) ==
    [kind |-> "ClusterResource", Name |-> "nodes", APIVersion |-> <<"v1">>,
     Required |-> required, Configuration |-> cfg,
     Namespaces |-> NilScope,
     Names |-> Scope(<< <<"*">> >>, <<>>),
     Fields |-> <<>>,
     Conditions |-> << [Path |-> "status.conditions",
                        Type |-> <<"r", "d">>, Status |-> <<"t">>] >>]

\* A resource check with two field predicates, the first without values
\* (any value is accepted), and two condition predicates.
mixedResource(required, cfg) ==
    [kind |-> "ClusterResource", Name |-> "nodes", APIVersion |-> <<"v1">>,
     Required |-> required, Configuration |-> cfg,
     Namespaces |-> NilScope,
     Names |-> NilScope,
     Fields |-> << [Path |-> ".status.phase", Values |-> <<>>],
                   [Path |-> ".metadata.name",
                    Values |-> << <<"a">>, <<"n", "?">> >>] >>,
     Conditions |-> << [Path |-> "status.conditions",
                        Type |-> <<"r", "d">>, Status |-> <<"t">>],
                       [Path |-> "status.conditions",
                        Type |-> <<"m", "p">>, Status |-> <<"t">>] >>]

\* A check of the pods of another API group: the same resource name as
\* podsResource, another apiVersion, no scopes, any name accepted.
podMetricsResource(required, cfg) ==
    [kind |-> "ClusterResource", Name |-> "pods",
     APIVersion |-> <<"metrics.k8s.io", "v1beta1">>,
     Required |-> required, Configuration |-> cfg,
     Namespaces |-> NilScope,
     Names |-> NilScope,
     Fields |-> << [Path |-> ".metadata.name", Values |-> <<>>] >>,
     Conditions |-> <<>>]

clusterEndpoint(required, cfg) ==
    [kind |-> "ClusterEndpoint", Name |-> "healthz", URI |-> "/healthz",
     Required |-> required, Configuration |-> cfg]

httpEndpoint(required, cfg) ==
    [kind |-> "HTTPEndpoint", Name |-> "web", URL |-> "http://web",
     Required |-> required, Configuration |-> cfg]

(* --------------------------- validators -------------------------------- *)

\* FieldSelector.GetPath / GetValues (JSONPath / Values in validator.go).
GetPath(f) == f.Path

GetValues(f) == IF Len(f.Values) > 0 THEN f.Values ELSE << <<"*">> >>

\* unstructuredPath(resource, JSONPath): (val, ok, err).
unstructuredPath(u, path) ==
    IF path = ".status.phase" THEN u.phase
    ELSE IF path = ".metadata.name" THEN Found(u.name)
    ELSE NotFound(<<>>)

\* unstructuredSlicePath(resource, JSONPath): (value, found, err).
unstructuredSlicePath(u, path) ==
    IF path = "status.conditions" THEN u.conditions ELSE NotFound(<<>>)

\* A failure reason: the key of ResourceErrors.
\* kind and path are strings, detail the values the message formats.
Reason(kind, path, detail) == [kind |-> kind, path |-> path, detail |-> detail]

\* result.ResourceErrors[reason] = append(result.ResourceErrors[reason], name)
AppendReason(m, reason, name) ==
    IF reason \in DOMAIN m
    THEN [m EXCEPT ![reason] = Append(@, name)]
    ELSE m @@ (reason :> <<name>>)

EmptyMap == [x \in {} |-> <<>>]

\* FieldStep that tolerates an absent path: only the value test is recorded.
FieldStepToleratingAbsence(m, field, u) ==
    LET name == namespacedName(u)
        x    == unstructuredPath(u, GetPath(field))
    IN  IF ~matchInPatterns(GetValues(field), x.val)
        THEN AppendReason(m, Reason("values not matching", "", GetValues(field) \o <<x.val>>), name)
        ELSE m

\* The body of validateFields' loop over resources, for one resource.
FieldStep(m, field, u) ==
    LET name == namespacedName(u)
        x    == unstructuredPath(u, GetPath(field))
        m1   == IF x.err THEN AppendReason(m, Reason("field type mismatch", field.Path, <<>>), name)
                ELSE m
        m2   == IF ~x.ok THEN AppendReason(m1, Reason("could not find JSONPath", field.Path, <<>>), name)
                ELSE m1
    IN  IF ~matchInPatterns(GetValues(field), x.val)
        THEN AppendReason(m2, Reason("values not matching", "", GetValues(field) \o <<x.val>>), name)
        ELSE m2

\* FieldErrors that leaves the loop over resources at the first resource
\* whose path is absent or of the wrong type, after recording it.
RECURSIVE FieldErrorsAbortingOnError(_, _, _)
FieldErrorsAbortingOnError(m, field, resources) ==
    IF resources = <<>> THEN m
    ELSE LET x == unstructuredPath(Head(resources), GetPath(field))
         IN  IF x.err \/ ~x.ok THEN FieldStep(m, field, Head(resources))
             ELSE FieldErrorsAbortingOnError(FieldStep(m, field, Head(resources)),
                                             field, Tail(resources))

RECURSIVE FieldErrors(_, _, _)
FieldErrors(m, field, resources) ==
    IF resources = <<>> THEN m
    ELSE FieldErrors(FieldStep(m, field, Head(resources)), field, Tail(resources))

RECURSIVE validateFieldsFrom(_, _)
validateFieldsFrom(fields, resources) ==
    IF fields = <<>> THEN <<>>
    ELSE LET errs == FieldErrors(EmptyMap, Head(fields), resources)
             rest == validateFieldsFrom(Tail(fields), resources)
         IN  IF DOMAIN errs # {}
             THEN <<[FieldPath |-> Head(fields).Path, ResourceErrors |-> errs]>> \o rest
             ELSE rest

validateFields(r, resources) == validateFieldsFrom(r.Fields, resources)

\* The loop over the entries of one resource's conditions list: the pair
\* (ResourceErrors, conditionMatch) after it. panic: the loop stopped at
\* condition["status"].(string) on an entry of the required type whose
\* status is not a string.
RECURSIVE ConditionScan(_, _, _, _, _)
ConditionScan(m, matched, cond, name, entries) ==
    IF entries = <<>> THEN [errs |-> m, conditionMatch |-> matched, panic |-> FALSE]
    ELSE LET c == Head(entries)
         IN  IF EqualFold(c.type, cond.Type) /\ ~c.statusIsString
             THEN [errs |-> m, conditionMatch |-> matched, panic |-> TRUE]
             ELSE IF EqualFold(c.type, cond.Type)
             THEN ConditionScan(
                    IF ~EqualFold(c.status, cond.Status)
                    THEN AppendReason(m, Reason("status does not match", "", <<c.status, cond.Status>>), name)
                    ELSE m,
                    TRUE, cond, name, Tail(entries))
             ELSE ConditionScan(m, matched, cond, name, Tail(entries))

ConditionStep(m, cond, u) ==
    LET name == namespacedName(u)
        x    == unstructuredSlicePath(u, cond.Path)
        m1   == IF x.err THEN AppendReason(m, Reason("type mismatch in path", cond.Path, <<>>), name)
                ELSE m
        m2   == IF ~x.ok THEN AppendReason(m1, Reason("conditions not found", cond.Path, <<>>), name)
                ELSE m1
        scan == ConditionScan(m2, FALSE, cond, name, x.val)
    IN  IF ~scan.conditionMatch
        THEN AppendReason(scan.errs, Reason("condition type not found", cond.Path, <<cond.Type>>), name)
        ELSE scan.errs

RECURSIVE ConditionErrors(_, _, _)
ConditionErrors(m, cond, resources) ==
    IF resources = <<>> THEN m
    ELSE ConditionErrors(ConditionStep(m, cond, Head(resources)), cond, Tail(resources))

RECURSIVE validateConditionsFrom(_, _)
validateConditionsFrom(conds, resources) ==
    IF conds = <<>> THEN <<>>
    ELSE LET errs == ConditionErrors(EmptyMap, Head(conds), resources)
             rest == validateConditionsFrom(Tail(conds), resources)
         IN  IF DOMAIN errs # {}
             THEN <<[Condition |-> <<Head(conds).Type, Head(conds).Status>>,
                     ResourceErrors |-> errs]>> \o rest
             ELSE rest

validateConditions(r, resources) == validateConditionsFrom(r.Conditions, resources)

\* validateConditions does not return: the type assertion on the status of
\* some entry panics. The list validateConditions computes has no meaning
\* then.
validateConditionsPanics(r, resources) ==
    \E i \in 1..Len(r.Conditions), j \in 1..Len(resources) :
        ConditionScan(EmptyMap, FALSE, r.Conditions[i], namespacedName(resources[j]),
                      unstructuredSlicePath(resources[j], r.Conditions[i].Path).val).panic

\* ValidationSummary{}
EmptyGVR == [Group |-> "", Version |-> "", Resource |-> ""]

EmptySummary ==
    [GVR |-> EmptyGVR, FieldValidation |-> <<>>, ConditionValidation |-> <<>>,
     ClusterEndpointValidation |-> <<>>]

\* validateResources that counts a round without instances as failing.
validateResourcesFailingWhenEmpty(r, resources, withGVR) ==
    LET fields     == validateFields(r, resources)
        conditions == validateConditions(r, resources)
        failed     == Len(fields) > 0 \/ Len(conditions) > 0 \/ resources = <<>>
    IN  [summary |-> [GVR |-> EmptyGVR,
                      FieldValidation |-> fields,
                      ConditionValidation |-> conditions,
                      ClusterEndpointValidation |-> <<>>],
         failed |-> failed,
         panic |-> validateConditionsPanics(r, resources)]

\* validateResources: (summary, err); failed stands for err != nil. withGVR:
\* validator.go sets summary.GVR on failure, part_004's summary has no GVR.
\* panic: the call never returns, summary and failed have no meaning.
validateResources(r, resources, withGVR) ==
    LET fields     == validateFields(r, resources)
        conditions == validateConditions(r, resources)
        failed     == Len(fields) > 0 \/ Len(conditions) > 0
    IN  [summary |-> [GVR |-> IF failed /\ withGVR
                              THEN groupVersionResource(r.APIVersion, r.Name)
                              ELSE EmptyGVR,
                      FieldValidation |-> fields,
                      ConditionValidation |-> conditions,
                      ClusterEndpointValidation |-> <<>>],
         failed  |-> failed,
         panic   |-> validateConditionsPanics(r, resources)]

\* FilterScope that tests the namespace only.
RECURSIVE FilterScopeNamespacesOnly(_, _)
FilterScopeNamespacesOnly(resource, items) ==
    IF items = <<>> THEN <<>>
    ELSE LET r    == Head(items)
             rest == FilterScopeNamespacesOnly(resource, Tail(items))
         IN  IF ~inSelectionScope(resource.Namespaces, r.namespace) THEN rest
             ELSE <<r>> \o rest

\* The scope filter of getValidationResources over one snapshot entry.
RECURSIVE FilterScope(_, _)
FilterScope(resource, items) ==
    IF items = <<>> THEN <<>>
    ELSE LET r    == Head(items)
             rest == FilterScope(resource, Tail(items))
         IN  IF ~inSelectionScope(resource.Namespaces, r.namespace) THEN rest
             ELSE IF ~inSelectionScope(resource.Names, r.name) THEN rest
             ELSE <<r>> \o rest

(* --------------------------- thresholds -------------------------------- *)

successThreshold(resourceCfg, globalCfg) ==
    IF resourceCfg.SuccessThreshold > 0
    THEN resourceCfg.SuccessThreshold
    ELSE globalCfg.SuccessThreshold

\* failureThreshold deciding for the override as a whole: the override's
\* value is used only when both of its thresholds are set.
failureThresholdWholeOverride(resourceCfg, globalCfg) ==
    IF resourceCfg.FailureThreshold > 0 /\ resourceCfg.SuccessThreshold > 0
    THEN resourceCfg.FailureThreshold
    ELSE globalCfg.FailureThreshold

failureThreshold(resourceCfg, globalCfg) ==
    IF resourceCfg.FailureThreshold > 0
    THEN resourceCfg.FailureThreshold
    ELSE globalCfg.FailureThreshold

(* ----------------------------- interval -------------------------------- *)

\* The Interval entry of a ValidationConfiguration, a string; "" when absent.
IntervalCfg(i) == [Interval |-> i]

Digits == <<"0", "1", "2", "3", "4", "5", "6", "7", "8", "9">>

IsDigit(c) == \E d \in 1..Len(Digits) : Digits[d] = c

DigitValue(c) == (CHOOSE d \in 1..Len(Digits) : Digits[d] = c) - 1

\* The value of a string of decimal digits.
RECURSIVE ParseDigits(_)
ParseDigits(s) ==
    IF s = <<>> THEN 0
    ELSE 10 * ParseDigits(SubSeq(s, 1, Len(s) - 1)) + DigitValue(s[Len(s)])

\* Seconds in the units "s" and "m".
UnitSeconds(u) == IF u = "m" THEN 60 ELSE 1

\* time.ParseDuration on a number followed by one unit, in seconds: (d, err).
\* "" and a string without digits or without a unit are errors.
ParseDuration(s) ==
    IF /\ Len(s) >= 2
       /\ s[Len(s)] \in {"s", "m"}
       /\ \A i \in 1..(Len(s) - 1) : IsDigit(s[i])
    THEN [d |-> ParseDigits(SubSeq(s, 1, Len(s) - 1)) * UnitSeconds(s[Len(s)]),
          err |-> FALSE]
    ELSE [d |-> 0, err |-> TRUE]

\* time.Second * 1
DefaultInterval == 1

interval(resourceCfg, globalCfg) ==
    IF resourceCfg.Interval # <<>>
    THEN IF ParseDuration(resourceCfg.Interval).err THEN DefaultInterval
         ELSE ParseDuration(resourceCfg.Interval).d
    ELSE IF ParseDuration(globalCfg.Interval).err THEN DefaultInterval
         ELSE ParseDuration(globalCfg.Interval).d

(* ----------------------------- state ----------------------------------- *)

VARIABLES
    variant,          \* the revision of Validate that runs
    Validation,       \* v.Validation: the parsed, immutable specification
    ClusterResources, \* v.ClusterResources: resource name -> items last listed
    wg,               \* v.Waiter's WaitGroup counter
    finished,         \* v.Waiter.finished: "open", "closed", or "panic" once a
                      \* closed channel was closed
    waiter,           \* the goroutine that waits and closes finished
    coordPc,          \* Validate itself: "spawn", "select", "returned"
    nextObj,          \* index of the next object the spawn loop visits
    summaries,        \* Validate's local summaries
    result,           \* what Validate returned
    pc,               \* per task: its position
    successCount,     \* per task
    failureCount,     \* per task
    summary,          \* per task: the summary of its last round
    state,            \* per task: "Polling", or the branch it left the loop by
    hist,             \* per task: the results of its rounds (TRUE = clean)
    listErrored,      \* some List call returned an error
    received,         \* the failure signals Validate took off v.Waiter.errors
    errRound,         \* per task: the first round whose List call erred (0: none)
    slept,            \* per task: the number of time.Sleep calls that have returned
    call,             \* the last application of a pure function: op, in, out
    rw,               \* v's RWMutex: the writer holding it (0: none), the readers
    lockPc,           \* per task: its position in the accesses to the snapshot map
    prior             \* what an earlier call of Validate on this Validator left

vars == <<variant, Validation, ClusterResources, wg, finished, waiter, coordPc,
          nextObj, summaries, result, pc, successCount, failureCount, summary,
          state, hist, listErrored, received, errRound, slept, call, rw, lockPc,
          prior>>

\* GetResources (validator.go) / GetValidationObjects (types.go).
GetValidationObjects ==
    IF variant = "summary" THEN Validation.Resources
    ELSE Validation.Resources \o Validation.Cluster \o Validation.HTTP

Tasks == 1..Len(GetValidationObjects)

Obj(t) == GetValidationObjects[t]

GetGlobalConfiguration == Validation.Configuration

\* The thresholds a task computes when it starts.
SuccessThresholdOf(t) == successThreshold(Obj(t).Configuration, GetGlobalConfiguration)

FailureThresholdOf(t) == failureThreshold(Obj(t).Configuration, GetGlobalConfiguration)

(* ------------------------- failure signals ----------------------------- *)

NoError == [type |-> "nil", cause |-> "", task |-> 0, data |-> EmptySummary]

\* errors.Wrapf(err, "failed to list dynamic resource ...")
ListError(t) == [type |-> "error", cause |-> "list", task |-> t, data |-> EmptySummary]

\* validator.go: errors.Errorf("failure threshold met ..."); part_004: a
\* ValidationError carrying the summary.
ThresholdError(t) ==
    IF variant = "summary"
    THEN [type |-> "error", cause |-> "threshold", task |-> t, data |-> EmptySummary]
    ELSE [type |-> "ValidationError", cause |-> "threshold", task |-> t, data |-> summary[t]]

\* ToValidationError: err.(ValidationError), a type assertion that panics on
\* an error of any other type.
ToValidationError(err) ==
    IF err.type = "ValidationError"
    THEN [panic |-> FALSE, value |-> err]
    ELSE [panic |-> TRUE, value |-> NoError]

NoResult == [Status |-> "none", Message |-> NoError, Summaries |-> <<>>]

\* No pure function was applied yet.
NoCall == [op |-> "none", in |-> <<>>, out |-> <<>>]

\* No call of Validate has returned on this Validator yet. Of an earlier
\* call: pc, state and summary of its tasks, its waiter goroutine, and got,
\* the signals of its tasks that the current call has received.
NoPrior == [calls |-> 1, pc |-> <<>>, state |-> <<>>, summary |-> <<>>,
            waiter |-> "none", got |-> <<>>]

\* sync.RWMutex's zero value: unlocked.
NoLock == [writer |-> 0, readers |-> {}]

(* ------------------------------ Init ----------------------------------- *)

\* 0 is an absent (or zero) entry of the configuration file.
Thresholds == {0, 1, MaxThreshold}

GlobalCfgs == {Cfg(s, f) : s \in Thresholds, f \in Thresholds}

Overrides == {NoCfg, Cfg(1, MaxThreshold)}

Validations(v) ==
    IF v = "summary"
    THEN {[Configuration |-> g,
           Resources |-> <<podsResource(r1, o), nodesResource(r2, NoCfg)>>,
           Cluster |-> <<>>, HTTP |-> <<>>] :
          g \in GlobalCfgs, o \in Overrides, r1 \in BOOLEAN, r2 \in BOOLEAN}
    ELSE {[Configuration |-> g,
           Resources |-> <<podsResource(r1, NoCfg)>>,
           Cluster |-> <<clusterEndpoint(r2, NoCfg)>>,
           HTTP |-> h] :
          g \in GlobalCfgs, r1 \in BOOLEAN, r2 \in BOOLEAN,
          h \in {<<>>, <<httpEndpoint(FALSE, NoCfg)>>}}

\* A specification that declares no check.
NoChecks ==
    [Configuration |-> Cfg(1, 1), Resources |-> <<>>, Cluster |-> <<>>, HTTP |-> <<>>]

\* Two checks that declare the same resource name.
SameNameChecks ==
    [Configuration |-> Cfg(1, 1),
     Resources |-> <<podsResource(TRUE, NoCfg), podMetricsResource(TRUE, NoCfg)>>,
     Cluster |-> <<>>, HTTP |-> <<>>]

\* NewValidator, then the entry of Validate.
Init ==
    /\ variant \in {"summary", "endpoints"}
    /\ Validation \in Validations(variant) \cup {NoChecks}
                        \cup (IF variant = "summary" THEN {SameNameChecks} ELSE {})
    /\ ClusterResources = [n \in {Validation.Resources[i].Name :
                                    i \in 1..Len(Validation.Resources)} |-> <<>>]
    /\ wg = 0
    /\ finished = "open"
    /\ waiter = "none"
    /\ coordPc = "spawn"
    /\ nextObj = 1
    /\ summaries = <<>>
    /\ result = NoResult
    /\ pc = [t \in Tasks |-> "idle"]
    /\ successCount = [t \in Tasks |-> 0]
    /\ failureCount = [t \in Tasks |-> 0]
    /\ summary = [t \in Tasks |-> EmptySummary]
    /\ state = [t \in Tasks |-> "Polling"]
    /\ hist = [t \in Tasks |-> <<>>]
    /\ listErrored = FALSE
    /\ received = <<>>
    /\ errRound = [t \in Tasks |-> 0]
    /\ slept = [t \in Tasks |-> 0]
    /\ call = NoCall
    /\ rw = NoLock
    /\ lockPc = [t \in Tasks |-> "idle"]
    /\ prior = NoPrior

(* --------------------------- Validate: spawn --------------------------- *)

coordVars == <<coordPc, nextObj, summaries, result, received>>
taskVars  == <<pc, successCount, failureCount, summary, state, hist>>
\* What Validate and its tasks never change: the input, and the variables of
\* the specifications of the pure functions and of the snapshot map's lock.
auxVars   == <<call, rw, lockPc, prior>>
specVars  == <<variant, Validation, auxVars>>

Spawning == coordPc = "spawn" /\ nextObj <= Len(GetValidationObjects)

\* v.Waiter.Add(1); go func(r ClusterResource) / go v.validateClusterResource(r)
SpawnClusterResource ==
    /\ Spawning
    /\ Obj(nextObj).kind = "ClusterResource"
    /\ wg' = wg + 1
    /\ pc' = [pc EXCEPT ![nextObj] = "list"]
    /\ nextObj' = nextObj + 1
    /\ UNCHANGED <<specVars, ClusterResources, finished, waiter, coordPc, summaries,
                   result, received, successCount, failureCount, summary, state,
                   hist, listErrored, errRound, slept>>

\* v.Waiter.Add(1); go v.validateClusterEndpoint(r)
SpawnClusterEndpoint ==
    /\ Spawning
    /\ Obj(nextObj).kind = "ClusterEndpoint"
    /\ wg' = wg + 1
    /\ pc' = [pc EXCEPT ![nextObj] = "probe"]
    /\ nextObj' = nextObj + 1
    /\ UNCHANGED <<specVars, ClusterResources, finished, waiter, coordPc, summaries,
                   result, received, successCount, failureCount, summary, state,
                   hist, listErrored, errRound, slept>>

\* v.Waiter.Add(1); case v1alpha1.HTTPEndpoint: continue (no task is started)
SkipHTTPEndpoint ==
    /\ Spawning
    /\ Obj(nextObj).kind = "HTTPEndpoint"
    /\ wg' = wg + 1
    /\ nextObj' = nextObj + 1
    /\ UNCHANGED <<specVars, ClusterResources, finished, waiter, coordPc, summaries,
                   result, received, taskVars, listErrored, errRound, slept>>

\* go func() { v.Waiter.Wait(); close(v.Waiter.finished) }(), and Validate
\* enters its select loop.
StartWaiter ==
    /\ coordPc = "spawn"
    /\ nextObj > Len(GetValidationObjects)
    /\ waiter' = "waiting"
    /\ coordPc' = "select"
    /\ UNCHANGED <<specVars, ClusterResources, wg, finished, nextObj, summaries,
                   result, received, taskVars, listErrored, errRound, slept>>

\* close(ch): closing a closed channel panics.
close(ch) == IF ch = "open" THEN "closed" ELSE "panic"

\* v.Waiter.Wait() returns once the counter is 0; close(v.Waiter.finished).
WaiterClose ==
    /\ waiter = "waiting"
    /\ wg = 0
    /\ finished' = close(finished)
    /\ waiter' = "exited"
    /\ UNCHANGED <<specVars, ClusterResources, wg, coordVars, taskVars, listErrored, errRound, slept>>

(* ------------------------------ a task --------------------------------- *)

\* NextCounts with the resets left out: cumulative counters.
NextCountsCumulative(sc, fc, failed) ==
    IF failed THEN [success |-> sc, failure |-> fc + 1]
    ELSE [success |-> sc + 1, failure |-> fc]

\* The counter update after a round.
NextCounts(sc, fc, failed) ==
    IF failed THEN [success |-> 0, failure |-> fc + 1]
    ELSE [success |-> sc + 1, failure |-> 0]

\* Decide with strict comparisons: one round late.
DecideStrict(sc, fc, sT, fT) ==
    IF sc > sT THEN "Succeeded"
    ELSE IF fc > fT THEN "Failed"
    ELSE "Polling"

\* The threshold test after the counter update.
Decide(sc, fc, sT, fT) ==
    IF sc >= sT THEN "Succeeded"
    ELSE IF fc >= fT THEN "Failed"
    ELSE "Polling"

\* AfterDecision without the sends to v.Waiter.summary.
AfterDecisionWithoutSummary(decision, sum, required) ==
    IF decision = "Polling" THEN "sleep"
    ELSE IF decision = "Failed" /\ required THEN "sendError"
    ELSE "return"

\* AfterDecision without the time.Sleep at the end of the loop body.
AfterDecisionWithoutSleep(decision, sum, required) ==
    IF decision = "Polling" THEN "list"
    ELSE IF variant = "summary" /\ sum # EmptySummary THEN "sendSummary"
    ELSE IF decision = "Failed" /\ required THEN "sendError"
    ELSE "return"

\* Where a ClusterResource task goes after its decision.
AfterDecision(decision, sum, required) ==
    IF decision = "Polling" THEN "sleep"
    ELSE IF variant = "summary" /\ sum # EmptySummary THEN "sendSummary"
    ELSE IF decision = "Failed" /\ required THEN "sendError"
    ELSE "return"

\* AfterSummary without the send to v.Waiter.errors.
AfterSummaryWithoutError(decision, required) == "return"

\* AfterSummary without the return statements: the task goes on polling.
AfterSummaryLooping(decision, required) == "sleep"

\* Where a task goes once its summary was taken off v.Waiter.summary.
AfterSummary(decision, required) ==
    IF decision = "Failed" /\ required THEN "sendError" ELSE "return"

\* AfterList with the error dropped instead of sent to v.Waiter.errors.
AfterListIgnoringError(failed) == "eval"

\* Where a task goes after listDynamicResource returned.
AfterList(failed) == IF failed THEN "listError" ELSE "eval"

\* SetClusterResources adding the items to the entry instead of replacing it.
SetClusterResourcesAppending(store, name, items) ==
    [store EXCEPT ![name] = @ \o items]

\* v.ClusterResources[resource.Name] = resources.Items
SetClusterResources(store, name, items) == [store EXCEPT ![name] = items]

\* listDynamicResource: the List call succeeds and the snapshot entry is
\* replaced under the write lock.
listDynamicResource(t) ==
    /\ pc[t] = "list"
    /\ Len(hist[t]) < MaxRounds
    /\ \E items \in ListResults(Obj(t)) :
         ClusterResources' = SetClusterResources(ClusterResources, Obj(t).Name, items)
    /\ pc' = [pc EXCEPT ![t] = AfterList(FALSE)]
    /\ UNCHANGED <<specVars, wg, finished, waiter, coordVars, successCount,
                   failureCount, summary, state, hist, listErrored, errRound, slept>>

\* listDynamicResource: the List call returns an error; the task goes on to
\* v.Waiter.errors <- err.
listDynamicResourceError(t) ==
    /\ pc[t] = "list"
    /\ Len(hist[t]) < MaxRounds
    /\ pc' = [pc EXCEPT ![t] = AfterList(TRUE)]
    /\ listErrored' = TRUE
    /\ errRound' = [errRound EXCEPT ![t] = IF @ = 0 THEN Len(hist[t]) + 1 ELSE @]
    /\ UNCHANGED <<specVars, ClusterResources, wg, finished, waiter, coordVars,
                   successCount, failureCount, summary, state, hist, slept>>

\* getValidationResources under the read lock.
getValidationResources(t) == FilterScope(Obj(t), ClusterResources[Obj(t).Name])

\* getValidationResources, validateResources, the counter update and the
\* threshold test of one round of a ClusterResource task. round, counts and
\* decision are each computed once and then used as values.
Evaluate(t) ==
    /\ pc[t] = "eval"
    /\ \E round \in {validateResources(Obj(t), getValidationResources(t),
                                        variant = "summary")} :
       \E counts \in {NextCounts(successCount[t], failureCount[t], round.failed)} :
       \E decision \in {Decide(counts.success, counts.failure,
                               SuccessThresholdOf(t), FailureThresholdOf(t))} :
           /\ summary' = [summary EXCEPT ![t] = round.summary]
           /\ successCount' = [successCount EXCEPT ![t] = counts.success]
           /\ failureCount' = [failureCount EXCEPT ![t] = counts.failure]
           /\ hist' = [hist EXCEPT ![t] = Append(@, ~round.failed)]
           /\ state' = [state EXCEPT ![t] = decision]
           /\ pc' = [pc EXCEPT ![t] = AfterDecision(decision, round.summary,
                                                   Obj(t).Required)]
    /\ UNCHANGED <<specVars, ClusterResources, wg, finished, waiter, coordVars,
                   listErrored, errRound, slept>>

\* One round of validateClusterEndpoint: rawGet, the counter update and the
\* threshold test.
Probe(t) ==
    /\ pc[t] = "probe"
    /\ Len(hist[t]) < MaxRounds
    /\ \E failed \in BOOLEAN :
         LET r        == Obj(t)
             counts   == NextCounts(successCount[t], failureCount[t], failed)
             decision == Decide(counts.success, counts.failure,
                                SuccessThresholdOf(t), FailureThresholdOf(t))
             res      == [Name |-> r.Name, Errors |-> IF failed THEN {r.URI} ELSE {}]
         IN  /\ summary' = [summary EXCEPT ![t] =
                     IF decision = "Failed"
                     THEN [@ EXCEPT !.ClusterEndpointValidation = Append(@, res)]
                     ELSE @]
             /\ successCount' = [successCount EXCEPT ![t] = counts.success]
             /\ failureCount' = [failureCount EXCEPT ![t] = counts.failure]
             /\ hist' = [hist EXCEPT ![t] = Append(@, ~failed)]
             /\ state' = [state EXCEPT ![t] = decision]
             /\ pc' = [pc EXCEPT ![t] =
                     IF decision = "Polling" THEN "sleepProbe"
                     ELSE IF decision = "Failed" /\ r.Required THEN "sendError"
                     ELSE "return"]
    /\ UNCHANGED <<specVars, ClusterResources, wg, finished, waiter, coordVars,
                   listErrored, errRound, slept>>

\* time.Sleep(v.interval(r)) between two rounds.
Sleep(t) ==
    /\ pc[t] \in {"sleep", "sleepProbe"}
    /\ pc' = [pc EXCEPT ![t] = IF pc[t] = "sleep" THEN "list" ELSE "probe"]
    /\ slept' = [slept EXCEPT ![t] = @ + 1]
    /\ UNCHANGED <<specVars, ClusterResources, wg, finished, waiter, coordVars,
                   successCount, failureCount, summary, state, hist, listErrored,
                   errRound>>

\* The deferred v.Waiter.Done() as the task returns.
TaskReturn(t) ==
    /\ pc[t] = "return"
    /\ pc' = [pc EXCEPT ![t] = "done"]
    /\ wg' = wg - 1
    /\ UNCHANGED <<specVars, ClusterResources, finished, waiter, coordVars,
                   successCount, failureCount, summary, state, hist, listErrored, errRound, slept>>

(* ----------------------- Validate: the select loop --------------------- *)

Failed(err, sums) ==
    [Status |-> "failed", Message |-> err,
     Summaries |-> IF variant = "summary" THEN sums ELSE <<>>]

\* Succeeded reporting the failed status.
SucceededAsFailed(sums) ==
    [Status |-> "failed", Message |-> NoError,
     Summaries |-> IF variant = "summary" THEN sums ELSE <<>>]

Succeeded(sums) ==
    [Status |-> "succeeded", Message |-> NoError,
     Summaries |-> IF variant = "summary" THEN sums ELSE <<>>]

\* OnError that records the signal and keeps selecting until all tasks
\* finished: the last signal wins.
OnErrorKeepSelecting(res, err, sums) ==
    [coordPc |-> "select", result |-> Failed(err, sums)]

\* case err := <-v.Waiter.errors: what Validate does with the signal.
OnError(res, err, sums) == [coordPc |-> "returned", result |-> Failed(err, sums)]

\* case summary := <-v.Waiter.summary, meeting task t's send on the
\* unbuffered channel.
ReceiveSummary(t) ==
    /\ coordPc = "select"
    /\ pc[t] = "sendSummary"
    /\ summaries' = Append(summaries, summary[t])
    /\ pc' = [pc EXCEPT ![t] = AfterSummary(state[t], Obj(t).Required)]
    /\ UNCHANGED <<specVars, ClusterResources, wg, finished, waiter, coordPc,
                   nextObj, result, received, successCount, failureCount, summary,
                   state, hist, listErrored, errRound, slept>>

\* case err := <-v.Waiter.errors, meeting task t's send of its threshold
\* failure.
ReceiveThresholdError(t) ==
    /\ coordPc = "select"
    /\ pc[t] = "sendError"
    /\ LET on == OnError(result, ThresholdError(t), summaries)
       IN  coordPc' = on.coordPc /\ result' = on.result
    /\ received' = Append(received, ThresholdError(t))
    /\ pc' = [pc EXCEPT ![t] = "return"]
    /\ UNCHANGED <<specVars, ClusterResources, wg, finished, waiter, nextObj,
                   summaries, successCount, failureCount, summary, state, hist,
                   listErrored, errRound, slept>>

\* case err := <-v.Waiter.errors, meeting task t's send of a List error;
\* the task then goes on with the round.
ReceiveListError(t) ==
    /\ coordPc = "select"
    /\ pc[t] = "listError"
    /\ LET on == OnError(result, ListError(t), summaries)
       IN  coordPc' = on.coordPc /\ result' = on.result
    /\ received' = Append(received, ListError(t))
    /\ pc' = [pc EXCEPT ![t] = "eval"]
    /\ UNCHANGED <<specVars, ClusterResources, wg, finished, waiter, nextObj,
                   summaries, successCount, failureCount, summary, state, hist,
                   listErrored, errRound, slept>>

\* case <-v.Waiter.finished: finished = true, the loop breaks and Validate
\* returns ValidationSucceeded (nil in part_004).
ReceiveFinished ==
    /\ coordPc = "select"
    /\ finished = "closed"
    /\ coordPc' = "returned"
    /\ result' = Succeeded(summaries)
    /\ UNCHANGED <<specVars, ClusterResources, wg, finished, waiter, nextObj,
                   summaries, received, taskVars, listErrored, errRound, slept>>

\* The steps of the tasks, for any task.
TaskLists         == \E t \in Tasks : listDynamicResource(t)
TaskListFails     == \E t \in Tasks : listDynamicResourceError(t)
TaskEvaluates     == \E t \in Tasks : Evaluate(t)
TaskProbes        == \E t \in Tasks : Probe(t)
TaskSleeps        == \E t \in Tasks : Sleep(t)
TaskReturns       == \E t \in Tasks : TaskReturn(t)
SummaryReceived   == \E t \in Tasks : ReceiveSummary(t)
ThresholdErrorReceived == \E t \in Tasks : ReceiveThresholdError(t)
ListErrorReceived == \E t \in Tasks : ReceiveListError(t)

Next ==
    \/ SpawnClusterResource
    \/ SpawnClusterEndpoint
    \/ SkipHTTPEndpoint
    \/ StartWaiter
    \/ WaiterClose
    \/ TaskLists
    \/ TaskListFails
    \/ TaskEvaluates
    \/ TaskProbes
    \/ TaskSleeps
    \/ TaskReturns
    \/ SummaryReceived
    \/ ThresholdErrorReceived
    \/ ListErrorReceived
    \/ ReceiveFinished

Spec == Init /\ [][Next]_vars

(* ------------------- Validate called a second time -------------------- *)

\* The tasks of the returned call have returned or are blocked in a send to
\* v.Waiter.summary or v.Waiter.errors that nobody takes any more (an
\* HTTPEndpoint never had a task).
Quiescent ==
    \A t \in Tasks : pc[t] \in {"idle", "done", "sendSummary", "sendError"}

\* The caller calls v.Validate() again after it returned. NewValidator is
\* not run again: v.Waiter's WaitGroup and channels and v.ClusterResources
\* are those of the first call; the locals of Validate and of the tasks are
\* new. What the first call left behind moves to prior.
ValidateAgain ==
    /\ prior.calls = 1
    /\ coordPc = "returned"
    /\ Quiescent
    /\ prior' = [calls |-> 2, pc |-> pc, state |-> state, summary |-> summary,
                 waiter |-> waiter, got |-> <<>>]
    /\ waiter' = "none"
    /\ coordPc' = "spawn"
    /\ nextObj' = 1
    /\ summaries' = <<>>
    /\ result' = NoResult
    /\ received' = <<>>
    /\ pc' = [t \in Tasks |-> "idle"]
    /\ successCount' = [t \in Tasks |-> 0]
    /\ failureCount' = [t \in Tasks |-> 0]
    /\ summary' = [t \in Tasks |-> EmptySummary]
    /\ state' = [t \in Tasks |-> "Polling"]
    /\ hist' = [t \in Tasks |-> <<>>]
    /\ listErrored' = FALSE
    /\ errRound' = [t \in Tasks |-> 0]
    /\ slept' = [t \in Tasks |-> 0]
    /\ UNCHANGED <<variant, Validation, ClusterResources, wg, finished, call, rw, lockPc>>

\* The variables of the current call that a step of an earlier call's task
\* leaves alone.
priorFrame == <<variant, Validation, ClusterResources, waiter, nextObj, taskVars,
                listErrored, errRound, slept, call, rw, lockPc>>

\* case summary := <-v.Waiter.summary, meeting the send of a task of the
\* earlier call.
PriorSummaryReceived ==
    \E t \in DOMAIN prior.pc :
        /\ coordPc = "select"
        /\ prior.pc[t] = "sendSummary"
        /\ summaries' = Append(summaries, prior.summary[t])
        /\ prior' = [prior EXCEPT !.pc[t] = AfterSummary(prior.state[t], Obj(t).Required),
                                  !.got = Append(@, prior.summary[t])]
        /\ UNCHANGED <<priorFrame, wg, finished, coordPc, result, received>>

\* case err := <-v.Waiter.errors, meeting the send of a task of the earlier
\* call.
PriorErrorReceived ==
    \E t \in DOMAIN prior.pc :
        /\ coordPc = "select"
        /\ prior.pc[t] = "sendError"
        /\ LET on == OnError(result, ThresholdError(t), summaries)
           IN  coordPc' = on.coordPc /\ result' = on.result
        /\ prior' = [prior EXCEPT !.pc[t] = "return", !.got = Append(@, ThresholdError(t))]
        /\ UNCHANGED <<priorFrame, wg, finished, summaries, received>>

\* A task of the earlier call returns: its deferred v.Waiter.Done().
PriorTaskReturns ==
    \E t \in DOMAIN prior.pc :
        /\ prior.pc[t] = "return"
        /\ prior' = [prior EXCEPT !.pc[t] = "done"]
        /\ wg' = wg - 1
        /\ UNCHANGED <<priorFrame, finished, coordVars>>

\* The waiter goroutine of the earlier call: v.Waiter.Wait() returns,
\* close(v.Waiter.finished).
PriorWaiterClose ==
    /\ prior.waiter = "waiting"
    /\ wg = 0
    /\ finished' = close(finished)
    /\ prior' = [prior EXCEPT !.waiter = "exited"]
    /\ UNCHANGED <<priorFrame, wg, coordVars>>

\* The runs of Validate with one global configuration, thresholds 1 and 1.
AgainInit ==
    /\ Init
    /\ Validation.Configuration = Cfg(1, 1)

\* The process runs: no goroutine has panicked.
Alive == finished # "panic"

\* The steps of Next and of what an earlier call left behind, while the
\* process runs.
AgainNext ==
    \/ Alive /\ SpawnClusterResource
    \/ Alive /\ SpawnClusterEndpoint
    \/ Alive /\ SkipHTTPEndpoint
    \/ Alive /\ StartWaiter
    \/ Alive /\ WaiterClose
    \/ Alive /\ TaskLists
    \/ Alive /\ TaskListFails
    \/ Alive /\ TaskEvaluates
    \/ Alive /\ TaskProbes
    \/ Alive /\ TaskSleeps
    \/ Alive /\ TaskReturns
    \/ Alive /\ SummaryReceived
    \/ Alive /\ ThresholdErrorReceived
    \/ Alive /\ ListErrorReceived
    \/ Alive /\ ReceiveFinished
    \/ Alive /\ ValidateAgain
    \/ Alive /\ PriorSummaryReceived
    \/ Alive /\ PriorErrorReceived
    \/ Alive /\ PriorTaskReturns
    \/ Alive /\ PriorWaiterClose

AgainSpec == AgainInit /\ [][AgainNext]_vars

(* ------------------------ the run, scheduled fairly -------------------- *)

\* The run from the configurations whose effective thresholds are all
\* positive.
FairInit ==
    /\ Init
    /\ \A t \in Tasks : SuccessThresholdOf(t) > 0 /\ FailureThresholdOf(t) > 0

\* A task is about to evaluate a round: TaskEvaluates can be taken.
EvaluatePending == \E t \in Tasks : pc[t] = "eval"

\* The Go scheduler runs every runnable goroutine, time.Sleep returns, and a
\* select whose case stays ready takes it in the end. Whether a List call
\* errs is the cluster's choice: no fairness for it. The last conjunct is
\* weak fairness of TaskEvaluates, which is enabled exactly when
\* EvaluatePending holds.
Fairness ==
    /\ WF_vars(SpawnClusterResource)
    /\ WF_vars(SpawnClusterEndpoint)
    /\ WF_vars(SkipHTTPEndpoint)
    /\ WF_vars(StartWaiter)
    /\ WF_vars(WaiterClose)
    /\ WF_vars(TaskLists)
    /\ WF_vars(TaskProbes)
    /\ WF_vars(TaskSleeps)
    /\ WF_vars(TaskReturns)
    /\ WF_vars(SummaryReceived)
    /\ WF_vars(ThresholdErrorReceived)
    /\ WF_vars(ListErrorReceived)
    /\ WF_vars(ReceiveFinished)
    /\ ([]<>~EvaluatePending \/ []<><<TaskEvaluates>>_vars)

FairSpec == FairInit /\ [][Next]_vars /\ Fairness

(* ------------- the pure functions, applied to their inputs ------------- *)

\* Everything but call.
runVars == <<variant, Validation, ClusterResources, wg, finished, waiter, coordPc,
             nextObj, summaries, result, pc, successCount, failureCount, summary,
             state, hist, listErrored, received, errRound, slept, rw, lockPc, prior>>

ExampleValidation ==
    [Configuration |-> Cfg(1, 1),
     Resources |-> <<podsResource(TRUE, NoCfg), nodesResource(TRUE, NoCfg)>>,
     Cluster |-> <<>>, HTTP |-> <<>>]

\* Threshold entries of a configuration file: negative, absent (0), positive.
ThresholdInputs == (0 - 1)..MaxThreshold

CfgInputs == {Cfg(s, f) : s \in ThresholdInputs, f \in ThresholdInputs}

\* Interval entries: absent, valid, and three that do not parse.
IntervalInputs ==
    {<<>>, <<"2", "s">>, <<"3", "s">>, <<"1", "m">>, <<"1", "0", "s">>,
     <<"x">>, <<"5">>, <<"s">>}

\* Pattern lists of a scope, and candidate names.
IncludeInputs ==
    {<<>>, << <<"*">> >>, << <<"a", "*">> >>, << <<"k">>, <<"a", "?">> >>}

ExcludeInputs ==
    {<<>>, << <<"*">> >>, << <<"a", "b">> >>, << <<"x">>, <<"?">> >>}

ScopeInputs ==
    {NilScope} \cup {Scope(i, e) : i \in IncludeInputs, e \in ExcludeInputs}

CandidateInputs ==
    {<<>>, <<"a">>, <<"A", "b">>, <<"a", "b", "c">>, <<"K">>, <<"z">>}

PatternListInputs ==
    IncludeInputs \cup ExcludeInputs \cup {<< <<"a", "*">>, <<"z">> >>}

ResourceInputs ==
    {podsResource(TRUE, NoCfg), nodesResource(TRUE, NoCfg), mixedResource(TRUE, NoCfg)}

InstanceInputs ==
    {podRunning, podPending, podOther, podMistyped, nodeReady, nodeNotReady,
     nodeTwice, nodeOtherType, nodeNoStatus}

InstanceListInputs ==
    UNION {[1..n -> InstanceInputs] : n \in 0..MaxInstances}

PatternInputs ==
    UNION {{l[i] : i \in 1..Len(l)} : l \in PatternListInputs}
        \cup {<<"A", "*">>, <<"K">>, <<"a", "B">>}

PureInit ==
    /\ Init
    /\ variant = "summary"
    /\ Validation = ExampleValidation

ApplySuccessThreshold ==
    /\ call = NoCall
    /\ \E r \in CfgInputs, g \in CfgInputs :
         call' = [op |-> "successThreshold", in |-> <<r, g>>,
                  out |-> successThreshold(r, g)]
    /\ UNCHANGED runVars

ApplyFailureThreshold ==
    /\ call = NoCall
    /\ \E r \in CfgInputs, g \in CfgInputs :
         call' = [op |-> "failureThreshold", in |-> <<r, g>>,
                  out |-> failureThreshold(r, g)]
    /\ UNCHANGED runVars

ApplyInterval ==
    /\ call = NoCall
    /\ \E r \in IntervalInputs, g \in IntervalInputs :
         call' = [op |-> "interval", in |-> <<IntervalCfg(r), IntervalCfg(g)>>,
                  out |-> interval(IntervalCfg(r), IntervalCfg(g))]
    /\ UNCHANGED runVars

ApplyInSelectionScope ==
    /\ call = NoCall
    /\ \E sc \in ScopeInputs, str \in CandidateInputs :
         call' = [op |-> "inSelectionScope", in |-> <<sc, str>>,
                  out |-> inSelectionScope(sc, str)]
    /\ UNCHANGED runVars

ApplyMatchInPatterns ==
    /\ call = NoCall
    /\ \E patterns \in PatternListInputs, str \in CandidateInputs :
         call' = [op |-> "matchInPatterns", in |-> <<patterns, str>>,
                  out |-> matchInPatterns(patterns, str)]
    /\ UNCHANGED runVars

\* validateResources on a list of in-scope instances.
ApplyValidateResources ==
    /\ call = NoCall
    /\ \E r \in ResourceInputs, resources \in InstanceListInputs :
         call' = [op |-> "validateResources", in |-> <<r, resources>>,
                  out |-> validateResources(r, resources, TRUE)]
    /\ UNCHANGED runVars

ApplyPatternMatch ==
    /\ call = NoCall
    /\ \E pattern \in PatternInputs, str \in CandidateInputs :
         call' = [op |-> "patternMatch", in |-> <<pattern, str>>,
                  out |-> patternMatch(pattern, str)]
    /\ UNCHANGED runVars

\* One round of a task on the items of its snapshot entry: the scope filter
\* of getValidationResources, then validateResources on what it leaves.
ApplyRound ==
    /\ call = NoCall
    /\ \E r \in ResourceInputs, items \in InstanceListInputs :
         \E resources \in {FilterScope(r, items)} :
            call' = [op |-> "round", in |-> <<r, items>>,
                     out |-> [resources |-> resources,
                              result |-> validateResources(r, resources, TRUE)]]
    /\ UNCHANGED runVars

PureNext ==
    \/ ApplySuccessThreshold
    \/ ApplyFailureThreshold
    \/ ApplyInterval
    \/ ApplyInSelectionScope
    \/ ApplyMatchInPatterns
    \/ ApplyValidateResources
    \/ ApplyPatternMatch
    \/ ApplyRound

PureSpec == PureInit /\ [][PureNext]_vars

(* ------------- the accesses to the snapshot map, lock by lock ---------- *)

\* A task's accesses to v.ClusterResources, one step per lock operation:
\* "call" (the List call), "lock", "write", "unlock" in listDynamicResource,
\* "rlock", "read", "runlock" in getValidationResources, round after round.

\* Everything but ClusterResources, rw and lockPc.
storeFrame == <<variant, Validation, wg, finished, waiter, coordPc, nextObj,
                summaries, result, pc, successCount, failureCount, summary,
                state, hist, listErrored, received, errRound, slept, call, prior>>

\* listDynamicResource taking the read lock for its write.
listDynamicResourceLockShared == "shared"

\* v.Lock() in listDynamicResource.
listDynamicResourceLock == "exclusive"

\* v.RLock() in getValidationResources.
getValidationResourcesLock == "shared"

\* sync.RWMutex: Lock waits for the writer and all readers to be gone, RLock
\* for the writer.
CanAcquire(mode, lock) ==
    IF mode = "exclusive" THEN lock.writer = 0 /\ lock.readers = {}
    ELSE lock.writer = 0

Acquire(mode, lock, t) ==
    IF mode = "exclusive" THEN [lock EXCEPT !.writer = t]
    ELSE [lock EXCEPT !.readers = @ \cup {t}]

Release(mode, lock, t) ==
    IF mode = "exclusive" THEN [lock EXCEPT !.writer = 0]
    ELSE [lock EXCEPT !.readers = @ \ {t}]

StoreInit ==
    /\ Init
    /\ variant = "summary"
    /\ Validation = ExampleValidation

\* go func(r): the task starts its first round.
StoreStart ==
    \E t \in Tasks :
        /\ lockPc[t] = "idle"
        /\ lockPc' = [lockPc EXCEPT ![t] = "call"]
        /\ UNCHANGED <<storeFrame, ClusterResources, rw>>

\* The List call returns items.
StoreListOk ==
    \E t \in Tasks :
        /\ lockPc[t] = "call"
        /\ lockPc' = [lockPc EXCEPT ![t] = "lock"]
        /\ UNCHANGED <<storeFrame, ClusterResources, rw>>

\* The List call returns an error: listDynamicResource returns without
\* touching the lock, and the round goes on to getValidationResources.
StoreListError ==
    \E t \in Tasks :
        /\ lockPc[t] = "call"
        /\ lockPc' = [lockPc EXCEPT ![t] = "rlock"]
        /\ UNCHANGED <<storeFrame, ClusterResources, rw>>

\* v.Lock()
StoreLock ==
    \E t \in Tasks :
        /\ lockPc[t] = "lock"
        /\ CanAcquire(listDynamicResourceLock, rw)
        /\ rw' = Acquire(listDynamicResourceLock, rw, t)
        /\ lockPc' = [lockPc EXCEPT ![t] = "write"]
        /\ UNCHANGED <<storeFrame, ClusterResources>>

\* v.ClusterResources[resource.Name] = resources.Items
StoreWrite ==
    \E t \in Tasks :
        /\ lockPc[t] = "write"
        /\ \E items \in ListResults(Obj(t)) :
             ClusterResources' = SetClusterResources(ClusterResources, Obj(t).Name, items)
        /\ lockPc' = [lockPc EXCEPT ![t] = "unlock"]
        /\ UNCHANGED <<storeFrame, rw>>

\* v.Unlock()
StoreUnlock ==
    \E t \in Tasks :
        /\ lockPc[t] = "unlock"
        /\ rw' = Release(listDynamicResourceLock, rw, t)
        /\ lockPc' = [lockPc EXCEPT ![t] = "rlock"]
        /\ UNCHANGED <<storeFrame, ClusterResources>>

\* v.RLock()
StoreRLock ==
    \E t \in Tasks :
        /\ lockPc[t] = "rlock"
        /\ CanAcquire(getValidationResourcesLock, rw)
        /\ rw' = Acquire(getValidationResourcesLock, rw, t)
        /\ lockPc' = [lockPc EXCEPT ![t] = "read"]
        /\ UNCHANGED <<storeFrame, ClusterResources>>

\* for _, r := range v.ClusterResources[resource.Name]
StoreRead ==
    \E t \in Tasks :
        /\ lockPc[t] = "read"
        /\ lockPc' = [lockPc EXCEPT ![t] = "runlock"]
        /\ UNCHANGED <<storeFrame, ClusterResources, rw>>

\* v.RUnlock(), and the rest of the round up to the next List call.
StoreRUnlock ==
    \E t \in Tasks :
        /\ lockPc[t] = "runlock"
        /\ rw' = Release(getValidationResourcesLock, rw, t)
        /\ lockPc' = [lockPc EXCEPT ![t] = "call"]
        /\ UNCHANGED <<storeFrame, ClusterResources>>

StoreNext ==
    \/ StoreStart
    \/ StoreListOk
    \/ StoreListError
    \/ StoreLock
    \/ StoreWrite
    \/ StoreUnlock
    \/ StoreRLock
    \/ StoreRead
    \/ StoreRUnlock

StoreSpec == StoreInit /\ [][StoreNext]_vars

(* ------------------------ notions of the claims ------------------------ *)

Writing(t) == lockPc[t] \in {"write", "unlock"}

Reading(t) == lockPc[t] \in {"read", "runlock"}

Range(seq) == {seq[i] : i \in 1..Len(seq)}

\* Number of trailing elements of h equal to b.
RECURSIVE TrailingRun(_, _)
TrailingRun(h, b) ==
    IF h = <<>> \/ h[Len(h)] # b THEN 0
    ELSE 1 + TrailingRun(SubSeq(h, 1, Len(h) - 1), b)

\* The prefix of h of length k reaches a threshold: k rounds end a run of S
\* clean rounds or of F failing rounds.
ReachesAt(h, k, S, F) ==
    \/ TrailingRun(SubSeq(h, 1, k), TRUE) >= S
    \/ TrailingRun(SubSeq(h, 1, k), FALSE) >= F

\* The state the threshold state machine of section 4.6 is in after the
\* rounds h, for positive thresholds.
ExpectedState(h, S, F) ==
    IF h = <<>> \/ ~ReachesAt(h, Len(h), S, F) THEN "Polling"
    ELSE IF TrailingRun(h, TRUE) >= S THEN "Succeeded"
    ELSE "Failed"

PositiveThresholds(t) == SuccessThresholdOf(t) > 0 /\ FailureThresholdOf(t) > 0

Started(t) == pc[t] # "idle"

\* Task t has finished a round with failureCount >= its failure threshold.
ReachedFailureThreshold(t) ==
    hist[t] # <<>> /\ failureCount[t] >= FailureThresholdOf(t)

Returned == coordPc = "returned"

BlockedOnSend(t) == pc[t] \in {"sendSummary", "sendError", "listError"}

InRound(t) == pc[t] \in {"list", "eval", "sleep", "probe", "sleepProbe"}

(* ------------------------------ claims --------------------------------- *)

AllThresholdsPositive == \A t \in Tasks : PositiveThresholds(t)

\* C1: in every run in which no list call errors, Validate returns Succeeded
\* if and only if no required check has reached failureCount >= its
\* effective failure threshold.
C1_SucceededIffNoRequiredFailure ==
    (Returned /\ ~listErrored) =>
        (result.Status = "succeeded"
            <=> ~\E t \in Tasks : Obj(t).Required /\ ReachedFailureThreshold(t))

\* The statement of C1 for the runs in which every effective threshold is
\* positive (it holds there; see C10 for the thresholds).
C1_WhenThresholdsPositive == AllThresholdsPositive => C1_SucceededIffNoRequiredFailure

\* C2: when Validate returns Failed because a required check R met its
\* failure threshold, the returned Summaries contain R's summary.
C2_FailedCarriesSummary ==
    (variant = "summary" /\ result.Status = "failed"
        /\ result.Message.cause = "threshold") =>
        LET R == result.Message.task
        IN  /\ Obj(R).Required
            /\ summary[R] \in Range(result.Summaries)

\* The statement of C2 for the runs in which every effective threshold is
\* positive.
C2_WhenThresholdsPositive == AllThresholdsPositive => C2_FailedCarriesSummary

\* C3: a check that is not required and reaches its failure threshold ends
\* as Failed without raising a failure signal, and when Validate returns
\* Succeeded the returned Summaries contain its failure summary.
C3_NonRequiredFailureAbsorbed ==
    variant = "summary" =>
        \A t \in Tasks :
            (~Obj(t).Required /\ ReachedFailureThreshold(t)) =>
                /\ state[t] = "Failed"
                /\ pc[t] # "sendError"
                /\ \A i \in 1..Len(received) :
                       received[i].cause = "threshold" => received[i].task # t
                /\ result.Status = "succeeded" => summary[t] \in Range(result.Summaries)

\* The statement of C3 for the runs in which every effective threshold is
\* positive.
C3_WhenThresholdsPositive == AllThresholdsPositive => C3_NonRequiredFailureAbsorbed

\* C4: in every task, resource check and cluster-endpoint check alike, the
\* counters start at 0, after every round exactly one of them is non-zero,
\* and each counter equals the length of the current run of consecutive equal
\* round results (a clean round adds 1 to successCount and resets
\* failureCount, a failing round adds 1 to failureCount and resets
\* successCount).
C4_CountersAreRunLengths ==
    \A t \in Tasks :
        /\ successCount[t] = TrailingRun(hist[t], TRUE)
        /\ failureCount[t] = TrailingRun(hist[t], FALSE)
        /\ hist[t] = <<>> => successCount[t] = 0 /\ failureCount[t] = 0
        /\ hist[t] # <<>> => (successCount[t] = 0) # (failureCount[t] = 0)

\* A resource task and a cluster-endpoint task have both seen a success
\* right after a failure, and a resource task a failure right after a success.
C4_Witness ==
    /\ variant = "endpoints"
    /\ \E t \in Tasks, u \in Tasks :
         /\ Obj(t).kind = "ClusterResource"
         /\ Obj(u).kind = "ClusterEndpoint"
         /\ hist[t] = <<TRUE, FALSE, TRUE>>
         /\ hist[u] = <<FALSE, TRUE>>
         /\ successCount[t] = 1 /\ failureCount[t] = 0
         /\ successCount[u] = 1 /\ failureCount[u] = 0

\* C5: with positive effective thresholds S and F, the state of a task is
\* decided by the sequence of its round results: Succeeded at the first
\* round that completes S consecutive clean rounds, Failed at the first round
\* that completes F consecutive failing rounds, and at every earlier round
\* the task is still Polling and goes on to another round.
C5_StateFollowsRounds ==
    \A t \in Tasks :
        PositiveThresholds(t) =>
            LET h == hist[t]
                S == SuccessThresholdOf(t)
                F == FailureThresholdOf(t)
            IN  /\ state[t] = ExpectedState(h, S, F)
                /\ \A k \in 1..(Len(h) - 1) : ~ReachesAt(h, k, S, F)
                /\ state[t] = "Polling" /\ Started(t)
                       => pc[t] \in {"list", "listError", "eval", "sleep", "probe", "sleepProbe"}
                /\ state[t] # "Polling"
                       => pc[t] \in {"sendSummary", "sendError", "return", "done"}

\* A task with S = 2 succeeded in its third round after a failing first
\* round, and another failed in its MaxThreshold-th failing round.
C5_Witness ==
    \E t \in Tasks, u \in Tasks :
        /\ PositiveThresholds(t) /\ PositiveThresholds(u)
        /\ SuccessThresholdOf(t) = 2
        /\ hist[t] = <<FALSE, TRUE, TRUE>>
        /\ state[t] = "Succeeded"
        /\ FailureThresholdOf(u) = MaxThreshold
        /\ state[u] = "Failed"
        /\ Len(hist[u]) = MaxThreshold

\* C6: if any list call of any task returned an error, Validate never returns
\* Succeeded: when it has returned, it has returned Failed, whatever the
\* counters and thresholds are.
C6_ListErrorNeverSucceeds ==
    listErrored =>
        /\ result.Status # "succeeded"
        /\ Returned => result.Status = "failed"

\* Validate returned Failed on a List error although no task left its loop
\* by the failure branch.
C6_Witness ==
    /\ listErrored
    /\ Returned
    /\ result.Message.cause = "list"
    /\ \A t \in Tasks : state[t] # "Failed"

\* C7: every started task whose round results reach one of its thresholds
\* eventually returns, also when Validate has already returned: no task
\* stays blocked delivering its summary or its failure signal to a collector
\* nobody reads. (Once Validate has returned no receive step is enabled any
\* more, so a task that is at a send then is blocked forever.)
C7_NoTaskBlockedAfterReturn ==
    ~(Returned /\ \E t \in Tasks : state[t] # "Polling"
                                    /\ pc[t] \in {"sendSummary", "sendError"})

\* C8: when Validate receives a failure signal it returns Failed in that
\* step, without waiting for any other task, with the first signal it
\* received as Message; no later signal changes the result.
C8_FirstFailureWins ==
    received # <<>> =>
        /\ Returned
        /\ result.Status = "failed"
        /\ result.Message = received[1]
        /\ Len(received) = 1

\* Validate has returned Failed on one task's signal while another task is
\* still inside its polling loop.
C8_Witness ==
    /\ Returned
    /\ received # <<>>
    /\ result.Message = received[1]
    /\ \E u \in Tasks : u # result.Message.task /\ InRound(u)

\* C9: whenever Validate returns, the returned Summaries contain the summary
\* of every check whose task had reached its terminal threshold with a
\* non-empty summary before Validate decided.
C9_NoTerminalSummaryMissing ==
    [][(variant = "summary" /\ coordPc = "select" /\ coordPc' = "returned") =>
          \A t \in Tasks :
              (state[t] # "Polling" /\ summary[t] # EmptySummary) =>
                  summary[t] \in Range(result'.Summaries)]_vars

\* C10: the effective successThreshold and failureThreshold a task uses at
\* runtime are both > 0, for every combination of override and global
\* configuration.
C10_EffectiveThresholdsPositive ==
    \A t \in Tasks : Started(t) => PositiveThresholds(t)

\* C11: a check without override uses exactly the global thresholds, and the
\* fallback is decided per value: a positive override of one threshold is used
\* for that threshold, whatever the override of the other one is, and a
\* threshold whose override is not positive takes the global value.
C11_ThresholdFallbackPerValue ==
    /\ call.op = "successThreshold" =>
          LET r == call.in[1]
              g == call.in[2]
          IN  /\ r.SuccessThreshold > 0 => call.out = r.SuccessThreshold
              /\ r.SuccessThreshold <= 0 => call.out = g.SuccessThreshold
              /\ r = NoCfg => call.out = g.SuccessThreshold
    /\ call.op = "failureThreshold" =>
          LET r == call.in[1]
              g == call.in[2]
          IN  /\ r.FailureThreshold > 0 => call.out = r.FailureThreshold
              /\ r.FailureThreshold <= 0 => call.out = g.FailureThreshold
              /\ r = NoCfg => call.out = g.FailureThreshold

\* failureThreshold was applied to a check that overrides only
\* failureThreshold, and returned the override, not the global value.
C11_Witness ==
    /\ call.op = "failureThreshold"
    /\ call.in[1].SuccessThreshold = 0
    /\ call.in[1].FailureThreshold = MaxThreshold
    /\ call.in[2] = Cfg(1, 1)
    /\ call.out = MaxThreshold

\* C12: the effective poll interval of a check is its own override when the
\* override is present and valid, otherwise the global interval, and the
\* default of 1 second when the global interval fails to parse; an override
\* that is absent or invalid falls back to the global interval.
C12_IntervalFallsBackToGlobal ==
    call.op = "interval" =>
        LET r == ParseDuration(call.in[1].Interval)
            g == ParseDuration(call.in[2].Interval)
        IN  call.out = IF call.in[1].Interval # <<>> /\ ~r.err THEN r.d
                       ELSE IF ~g.err THEN g.d
                       ELSE DefaultInterval

\* The statement of C12 for the checks whose override interval is absent or
\* parses.
C12_WhenOverrideParses ==
    (call.op = "interval"
        /\ (call.in[1].Interval = <<>> \/ ~ParseDuration(call.in[1].Interval).err))
    => C12_IntervalFallsBackToGlobal

\* C13: a round whose List call erred is not counted against the
\* thresholds: the task evaluates no predicates in it and leaves successCount
\* and failureCount as they were, so the round adds no result to the task's
\* rounds.
C13_ErroredRoundNotCounted ==
    \A t \in Tasks : errRound[t] # 0 => Len(hist[t]) < errRound[t]

\* C14: a List error is not retried: after a task's List call returned an
\* error, that task issues no further List call.
C14_NoListCallAfterListError ==
    [][\A t \in Tasks :
          errRound[t] # 0 => ~(pc[t] = "list" /\ pc'[t] # "list")]_vars

\* C15: every non-nil error that Validate returns is a ValidationError, for
\* every kind of failure signal (threshold failure of a resource, of a cluster
\* endpoint, and a List error), so that ToValidationError succeeds on it.
C15_ReturnedErrorIsValidationError ==
    (variant = "endpoints" /\ Returned /\ result.Status = "failed") =>
        /\ result.Message.type = "ValidationError"
        /\ ~ToValidationError(result.Message).panic

\* The statement of C15 for the threshold failure signals.
C15_ForThresholdFailures ==
    (Returned /\ result.Message.cause = "threshold") =>
        C15_ReturnedErrorIsValidationError

\* C16: a task emits its outcome at most once: it comes to send a summary
\* only in the step in which it reaches a terminal state, it comes to send a
\* threshold failure signal only in that round and as Failed, once a send is
\* done it never comes back to it, and after reaching a terminal state the
\* task performs no further round.
C16_OutcomeEmittedAtMostOnce ==
    [][\A t \in Tasks :
          /\ state[t] # "Polling" =>
                /\ state'[t] = state[t]
                /\ hist'[t] = hist[t]
                /\ summary'[t] = summary[t]
                /\ pc'[t] \in {"sendSummary", "sendError", "return", "done"}
          /\ (pc'[t] = "sendSummary" /\ pc[t] # "sendSummary") =>
                state[t] = "Polling" /\ state'[t] # "Polling"
          /\ (pc'[t] = "sendError" /\ pc[t] # "sendError") =>
                state'[t] = "Failed" /\ pc[t] \in {"eval", "probe", "sendSummary"}
          /\ pc[t] = "sendSummary" => pc'[t] \in {"sendSummary", "sendError", "return"}
          /\ pc[t] = "sendError" => pc'[t] \in {"sendError", "return"}
          /\ pc[t] \in {"return", "done"} => pc'[t] \in {"return", "done"}]_vars

\* A required task has delivered its summary and then its threshold failure
\* signal, after two rounds, and has returned.
C16_Witness ==
    \E t \in Tasks :
        /\ Obj(t).Required
        /\ state[t] = "Failed"
        /\ Len(hist[t]) = 2
        /\ pc[t] = "done"
        /\ summary[t] \in Range(summaries)
        /\ received = <<ThresholdError(t)>>

\* C17: reader/writer exclusion on the snapshot map: no task writes the map
\* while another task reads or writes it, every write happens under the
\* exclusive lock and every read under the shared lock, and a lock is held
\* only by the tasks that are inside listDynamicResource's or
\* getValidationResources' locked section (every acquired lock is released).
C17_ReaderWriterExclusion ==
    /\ \A t \in Tasks :
          /\ Writing(t) =>
                /\ rw.writer = t
                /\ rw.readers = {}
                /\ \A u \in Tasks \ {t} : ~Writing(u) /\ ~Reading(u)
          /\ Reading(t) => t \in rw.readers /\ rw.writer = 0
    /\ rw.writer # 0 => Writing(rw.writer)
    /\ \A t \in rw.readers : Reading(t)

\* A task holds the exclusive lock for its second refresh while the other
\* task, which has refreshed its own entry before, waits for the lock.
C17_Witness ==
    \E t \in Tasks, u \in Tasks :
        /\ t # u
        /\ lockPc[t] = "write"
        /\ ClusterResources[Obj(t).Name] # <<>>
        /\ lockPc[u] \in {"lock", "rlock"}
        /\ ClusterResources[Obj(u).Name] # <<>>

\* C18: a successful refresh of kind K replaces K's entry with the list just
\* fetched and leaves the entries of the other kinds unchanged; a refresh
\* that errs leaves the whole map unchanged.
C18_RefreshReplacesOneEntry ==
    [][\A t \in Tasks :
          (pc[t] = "list" /\ pc'[t] # "list") =>
              IF pc'[t] = "listError"
              THEN ClusterResources' = ClusterResources
              ELSE /\ ClusterResources'[Obj(t).Name] \in ListResults(Obj(t))
                   /\ \A k \in DOMAIN ClusterResources \ {Obj(t).Name} :
                         ClusterResources'[k] = ClusterResources[k]
                   /\ DOMAIN ClusterResources' = DOMAIN ClusterResources]_vars

\* A task has replaced its entry in its second round by a list other than
\* the first one's, while another task's List call erred and its entry is
\* still empty.
C18_Witness ==
    \E t \in Tasks, u \in Tasks :
        /\ Len(hist[t]) = 1
        /\ pc[t] = "eval"
        /\ errRound[t] = 0
        /\ ClusterResources[Obj(t).Name] = <<podRunning, podPending>>
        /\ summary[t] = EmptySummary
        /\ Obj(u).kind = "ClusterResource"
        /\ pc[u] = "listError"
        /\ ClusterResources[Obj(u).Name] = <<>>

\* C19: Validate starts exactly one task for every declared check it
\* registers with the wait counter, for every kind of declared check, so the
\* counter always equals the number of started tasks that have not returned
\* (and the waiter can raise "finished" once they all have).
C19_CounterCountsRunningTasks ==
    wg = Cardinality({t \in Tasks : Started(t) /\ pc[t] # "done"})

\* The statement of C19 for the validations that declare no HTTP endpoint.
C19_WithoutHTTPEndpoints ==
    (variant = "summary" \/ Validation.HTTP = <<>>) => C19_CounterCountsRunningTasks

\* C20: for every non-absent scope and every non-empty candidate,
\* inSelectionScope is true iff the candidate matches at least one include
\* pattern and no exclude pattern: exclude wins over include, exclude can only
\* turn a match off (the result implies the result without the exclude
\* patterns), and a scope with no include pattern matches no candidate.
C20_ScopeIsIncludeMinusExclude ==
    (call.op = "inSelectionScope" /\ ~call.in[1].nil /\ call.in[2] # <<>>) =>
        LET sc  == call.in[1]
            str == call.in[2]
            inc == \E i \in 1..Len(sc.Include) : patternMatch(sc.Include[i], str)
            exc == \E j \in 1..Len(sc.Exclude) : patternMatch(sc.Exclude[j], str)
        IN  /\ call.out <=> (inc /\ ~exc)
            /\ exc => ~call.out
            /\ call.out => inSelectionScope(Scope(sc.Include, <<>>), str)
            /\ sc.Include = <<>> => ~call.out

\* A candidate that matches an include pattern and an exclude pattern, in
\* another case of letters, was found out of scope.
C20_Witness ==
    /\ call.op = "inSelectionScope"
    /\ call.in[1] = Scope(<< <<"a", "*">> >>, << <<"a", "b">> >>)
    /\ call.in[2] = <<"A", "b">>
    /\ call.out = FALSE

\* C21: inSelectionScope is true whenever the scope is absent (nil) or the
\* candidate is the empty string, whatever the include and exclude patterns
\* are, also when "" matches an exclude pattern such as "*".
C21_AbsentScopeOrEmptyCandidatePasses ==
    (call.op = "inSelectionScope" /\ (call.in[1].nil \/ call.in[2] = <<>>)) =>
        call.out = TRUE

\* The empty candidate passed a scope whose exclude pattern "*" matches it.
C21_Witness ==
    /\ call.op = "inSelectionScope"
    /\ ~call.in[1].nil
    /\ call.in[1].Exclude = << <<"*">> >>
    /\ patternMatch(<<"*">>, call.in[2])
    /\ call.in[2] = <<>>
    /\ call.out = TRUE

\* C30: matchInPatterns(patterns, value) is true iff the value matches at
\* least one pattern of the list; with an empty list it is false for every
\* value.
C30_MatchesIffSomePatternMatches ==
    call.op = "matchInPatterns" =>
        /\ call.out = (\E i \in 1..Len(call.in[1]) :
                          patternMatch(call.in[1][i], call.in[2]))
        /\ (call.in[1] = <<>> => call.out = FALSE)

\* A list whose first pattern matches the value and whose last does not.
C30_Witness ==
    /\ call.op = "matchInPatterns"
    /\ Len(call.in[1]) = 2
    /\ patternMatch(call.in[1][1], call.in[2])
    /\ ~patternMatch(call.in[1][2], call.in[2])
    /\ call.out = TRUE

(* ------------------ the validators applied to instances --------------- *)

ValidatorCall == call.op = "validateResources"

\* The pairs (kind of reason, identity) of one predicate's ResourceErrors.
RecordsOf(errs) ==
    UNION {{<<reason.kind, n>> : n \in Range(errs[reason])} : reason \in DOMAIN errs}

\* What the returned summary holds for a field predicate.
FieldRecords(out, field) ==
    LET FV == out.summary.FieldValidation
    IN  UNION {RecordsOf(FV[k].ResourceErrors) :
                 k \in {k \in 1..Len(FV) : FV[k].FieldPath = field.Path}}

\* What the returned summary holds for a condition predicate.
ConditionRecords(out, cond) ==
    LET CV == out.summary.ConditionValidation
    IN  UNION {RecordsOf(CV[k].ResourceErrors) :
                 k \in {k \in 1..Len(CV) : CV[k].Condition = <<cond.Type, cond.Status>>}}

\* The instance fails the field predicate: the path is missing, of
\* mismatching type, or holds a value no accepted pattern matches.
FieldFails(field, u) ==
    LET x        == unstructuredPath(u, field.Path)
        accepted == IF field.Values = <<>> THEN << <<"*">> >> ELSE field.Values
    IN  \/ x.err
        \/ ~x.ok
        \/ ~\E i \in 1..Len(accepted) : patternMatch(accepted[i], x.val)

\* The entries of the instance's conditions list whose type is the
\* predicate's type, ignoring case.
EntriesOfType(cond, u) ==
    {e \in Range(unstructuredSlicePath(u, cond.Path).val) :
        ToLower(e.type) = ToLower(cond.Type)}

HasRequiredStatus(cond, e) ==
    e.statusIsString /\ ToLower(e.status) = ToLower(cond.Status)

HasOtherStatus(cond, e) ==
    e.statusIsString /\ ToLower(e.status) # ToLower(cond.Status)

\* C23: validateFields returns exactly the field predicates that recorded a
\* failure: a predicate is in the result iff some instance of the list has
\* the path missing, of mismatching type, or holding a value that matches
\* none of the accepted patterns; and a round that returns is clean iff both
\* lists are empty.
C23_FieldResultsAreTheFailedPredicates ==
    ValidatorCall =>
        LET r         == call.in[1]
            resources == call.in[2]
            out       == call.out
            FV        == out.summary.FieldValidation
        IN  /\ \A i \in 1..Len(r.Fields) :
                 (\E k \in 1..Len(FV) : FV[k].FieldPath = r.Fields[i].Path)
                   <=> (\E j \in 1..Len(resources) : FieldFails(r.Fields[i], resources[j]))
            /\ \A k \in 1..Len(FV) :
                 /\ \E i \in 1..Len(r.Fields) : FV[k].FieldPath = r.Fields[i].Path
                 /\ DOMAIN FV[k].ResourceErrors # {}
            /\ ~out.panic =>
                 (~out.failed <=> (FV = <<>> /\ out.summary.ConditionValidation = <<>>))

\* Of two field predicates one is in the result, for an instance whose path
\* is missing, and the other, which every instance passes, is not.
C23_Witness ==
    /\ ValidatorCall
    /\ Len(call.in[1].Fields) = 2
    /\ Len(call.out.summary.FieldValidation) = 1
    /\ \E j \in 1..Len(call.in[2]) :
         ~unstructuredPath(call.in[2][j], call.in[1].Fields[1].Path).ok
    /\ call.out.failed

\* The statement of C24 over the instances chosen by the test Chosen.
ConditionTypeClaim(Chosen(_, _)) ==
    (ValidatorCall /\ ~call.out.panic) =>
        \A i \in 1..Len(call.in[1].Conditions), j \in 1..Len(call.in[2]) :
            LET cond == call.in[1].Conditions[i]
                u    == call.in[2][j]
                name == namespacedName(u)
                recs == ConditionRecords(call.out, cond)
            IN  Chosen(cond, u) =>
                  /\ (<<"condition type not found", name>> \in recs)
                       <=> (EntriesOfType(cond, u) = {})
                  /\ (\E e \in EntriesOfType(cond, u) : HasRequiredStatus(cond, e))
                       => \A rec \in recs : rec[2] # name

AnyInstance(cond, u) == TRUE

TypeOccursAtMostOnce(cond, u) == Cardinality(EntriesOfType(cond, u)) <= 1

\* C24: for a condition predicate with type T, an instance is recorded under
\* the "condition type not found" reason iff its conditions list has no
\* entry whose type equals T ignoring case, and an instance that has an entry
\* of type T with the required status appears under no reason (in every call
\* that returns).
C24_TypeNotFoundIffNoEntryOfType == ConditionTypeClaim(AnyInstance)

\* C24 for the instances whose conditions list holds the type at most once.
C24_WhenTypeOccursOnce == ConditionTypeClaim(TypeOccursAtMostOnce)

\* C25: type and status are compared ignoring case, and an instance whose
\* entry of type T has a status different from S is recorded under the
\* status-mismatch reason and not under type-not-found (in every call that
\* returns).
C25_StatusMismatchIsItsOwnReason ==
    (ValidatorCall /\ ~call.out.panic) =>
        \A i \in 1..Len(call.in[1].Conditions), j \in 1..Len(call.in[2]) :
            LET cond    == call.in[1].Conditions[i]
                u       == call.in[2][j]
                name    == namespacedName(u)
                recs    == ConditionRecords(call.out, cond)
                entries == EntriesOfType(cond, u)
            IN  /\ (\E e \in entries : HasOtherStatus(cond, e)) =>
                     /\ <<"status does not match", name>> \in recs
                     /\ <<"condition type not found", name>> \notin recs
                /\ (entries # {} /\ \A e \in entries : HasRequiredStatus(cond, e)) =>
                     /\ <<"status does not match", name>> \notin recs
                     /\ <<"condition type not found", name>> \notin recs

\* A predicate rd=t, an instance with the entry Rd=T that satisfies it and an
\* instance with the entry Rd=F, recorded under the status mismatch only.
C25_Witness ==
    /\ ValidatorCall
    /\ call.in[1].Conditions =
         << [Path |-> "status.conditions", Type |-> <<"r", "d">>, Status |-> <<"t">>] >>
    /\ call.in[2] = <<nodeReady, nodeNotReady>>
    /\ ~call.out.panic
    /\ ConditionRecords(call.out, call.in[1].Conditions[1])
         = {<<"status does not match", namespacedName(nodeNotReady)>>}

\* C26: for every instance document, also one whose condition entry has the
\* matching type but a missing or non-string status, the validators return
\* their lists of failure reasons: no call crashes inside a validator.
C26_ValidatorsAlwaysReturn ==
    ValidatorCall => ~call.out.panic

\* The instance fails the condition predicate.
ConditionFails(cond, u) ==
    \/ EntriesOfType(cond, u) = {}
    \/ \E e \in EntriesOfType(cond, u) : HasOtherStatus(cond, e)

\* C27: a path type mismatch or a path-not-found on one instance is recorded
\* as a failure reason for that instance, every instance and every predicate
\* is still evaluated (each failing instance is listed under each predicate
\* it fails), and the round is a failing round.
C27_PathErrorsAreRecordedAndTheRoundGoesOn ==
    ValidatorCall =>
        LET r         == call.in[1]
            resources == call.in[2]
            out       == call.out
        IN  /\ \A i \in 1..Len(r.Fields), j \in 1..Len(resources) :
                 LET x    == unstructuredPath(resources[j], r.Fields[i].Path)
                     name == namespacedName(resources[j])
                     recs == FieldRecords(out, r.Fields[i])
                 IN  /\ x.err => <<"field type mismatch", name>> \in recs
                     /\ ~x.ok => <<"could not find JSONPath", name>> \in recs
                     /\ FieldFails(r.Fields[i], resources[j]) =>
                          \E rec \in recs : rec[2] = name
                     /\ (~out.panic /\ (x.err \/ ~x.ok)) => out.failed
            /\ ~out.panic =>
                 \A i \in 1..Len(r.Conditions), j \in 1..Len(resources) :
                   LET x    == unstructuredSlicePath(resources[j], r.Conditions[i].Path)
                       name == namespacedName(resources[j])
                       recs == ConditionRecords(out, r.Conditions[i])
                   IN  /\ x.err => <<"type mismatch in path", name>> \in recs
                       /\ ~x.ok => <<"conditions not found", name>> \in recs
                       /\ ConditionFails(r.Conditions[i], resources[j]) =>
                            \E rec \in recs : rec[2] = name
                       /\ (x.err \/ ~x.ok) => out.failed

\* An instance with a mistyped path comes first and the failure of the
\* instance after it is recorded too.
C27_Witness ==
    /\ ValidatorCall
    /\ Len(call.in[2]) = 2
    /\ Len(call.in[1].Fields) > 0
    /\ unstructuredPath(call.in[2][1], call.in[1].Fields[1].Path).err
    /\ namespacedName(call.in[2][2]) # namespacedName(call.in[2][1])
    /\ <<"values not matching", namespacedName(call.in[2][2])>>
         \in FieldRecords(call.out, call.in[1].Fields[1])
    /\ <<"field type mismatch", namespacedName(call.in[2][1])>>
         \in FieldRecords(call.out, call.in[1].Fields[1])
    /\ call.out.failed

(* ----------------------- the instances of a round ---------------------- *)

\* The instances of items whose namespace passes the namespaces scope and
\* whose name passes the names scope, in the order of items.
InScopeItems(resource, items) ==
    LET Passes(u) == /\ inSelectionScope(resource.Namespaces, u.namespace)
                     /\ inSelectionScope(resource.Names, u.name)
    IN  SelectSeq(items, Passes)

\* The identities that appear in some failure reason of a summary.
SummaryNames(sum) ==
    UNION ({{rec[2] : rec \in RecordsOf(sum.FieldValidation[k].ResourceErrors)} :
               k \in 1..Len(sum.FieldValidation)}
           \cup {{rec[2] : rec \in RecordsOf(sum.ConditionValidation[k].ResourceErrors)} :
               k \in 1..Len(sum.ConditionValidation)})

\* C22: in every round the instances a task evaluates are exactly the
\* snapshot instances whose namespace and name pass the two scopes, in
\* snapshot order (the round's summary and result are those of the validators
\* on that list), and every identity in a failure reason of the summary is
\* the identity of an in-scope instance of the snapshot.
C22_RoundEvaluatesTheInScopeInstances ==
    [][\A t \in Tasks :
         (pc[t] = "eval" /\ pc'[t] # "eval") =>
            LET r       == Obj(t)
                inscope == InScopeItems(r, ClusterResources[r.Name])
                round   == validateResources(r, inscope, variant = "summary")
            IN  /\ summary'[t] = round.summary
                /\ hist'[t] = Append(hist[t], ~round.failed)
                /\ \A n \in SummaryNames(summary'[t]) :
                     \E u \in Range(ClusterResources[r.Name]) :
                        /\ n = namespacedName(u)
                        /\ inSelectionScope(r.Namespaces, u.namespace)
                        /\ inSelectionScope(r.Names, u.name)]_vars

\* A pods task had a clean round on a snapshot that holds two failing
\* instances out of scope, one by its name and one by its namespace.
C22_Witness ==
    \E t \in Tasks :
        /\ Obj(t).kind = "ClusterResource"
        /\ Obj(t).Name = "pods"
        /\ \A o \in Tasks \ {t} : Obj(o).kind # "ClusterResource" \/ Obj(o).Name # "pods"
        /\ pc[t] \in {"sleep", "return", "done"}
        /\ hist[t] # <<>>
        /\ hist[t][Len(hist[t])]
        /\ summary[t] = EmptySummary
        /\ ClusterResources["pods"] = <<podRunning, podDebug, podOther>>
        /\ InScopeItems(Obj(t), ClusterResources["pods"]) = <<podRunning>>

(* --------------------------- rounds without end ------------------------ *)

\* No two consecutive rounds of h have the same result.
Alternating(h) == \A k \in 1..(Len(h) - 1) : h[k] # h[k + 1]

\* C29: with successThreshold >= 2 and failureThreshold >= 2, a task whose
\* rounds so far alternate clean and failing (none of them an errored List
\* call) has reached no terminal state and is still in its loop, however many
\* rounds it has run, and Validate has returned only if another task raised
\* a failure signal.
C29_AlternatingRoundsNeverTerminate ==
    \A t \in Tasks :
        ( /\ Started(t)
          /\ SuccessThresholdOf(t) >= 2
          /\ FailureThresholdOf(t) >= 2
          /\ errRound[t] = 0
          /\ Alternating(hist[t]) ) =>
            /\ state[t] = "Polling"
            /\ InRound(t)
            /\ Returned => \E i \in 1..Len(received) : received[i].task # t

\* A task with both thresholds at least 2 has run MaxRounds alternating rounds, every
\* other task is done, and Validate is still waiting.
C29_Witness ==
    \E t \in Tasks :
        /\ SuccessThresholdOf(t) >= 2
        /\ FailureThresholdOf(t) >= 2
        /\ errRound[t] = 0
        /\ Len(hist[t]) = MaxRounds
        /\ Alternating(hist[t])
        /\ state[t] = "Polling"
        /\ \A o \in Tasks \ {t} : pc[o] = "done"
        /\ received = <<>>
        /\ ~Returned

(* ------------------------------ termination ---------------------------- *)

\* A task is still Polling after MaxRounds rounds: its results have not
\* become constant early enough for the rounds the model follows.
CutOffByBound ==
    \E t \in Tasks : Len(hist[t]) = MaxRounds /\ state[t] = "Polling"

\* Every declared check that is not an HTTP endpoint has left Polling.
AllSettled ==
    \A t \in Tasks : Obj(t).kind # "HTTPEndpoint" => state[t] # "Polling"

NoHTTPEndpoints == Validation.HTTP = <<>>

\* C28: under fair scheduling, with no List call erroring, positive effective
\* thresholds and every task's round results becoming constant, every task
\* reaches a terminal state and Validate eventually returns.
C28_ValidateReturnsWhenRoundsSettle ==
    ([]~listErrored /\ []~CutOffByBound) => (<>AllSettled /\ <>Returned)

\* C28 for the configurations that declare no HTTP endpoint.
C28_WithoutHTTPEndpoints ==
    ([]~listErrored /\ []~CutOffByBound /\ []NoHTTPEndpoints)
        => (<>AllSettled /\ <>Returned)

(* ------------------------------ letter case ---------------------------- *)

\* strings.ToUpper on one character, for the letters LowerChar maps.
UpperChar(c) ==
    CASE c = "a" -> "A"
      [] c = "d" -> "D"
      [] c = "f" -> "F"
      [] c = "k" -> "K"
      [] c = "p" -> "P"
      [] c = "r" -> "R"
      [] c = "t" -> "T"
      [] OTHER -> c

ToUpper(s) == [i \in 1..Len(s) |-> UpperChar(s[i])]

\* C31: pattern matching is case-insensitive: patternMatch(p, s) equals the
\* match of lower(p) against lower(s), and has the same result after changing
\* the letter case of p, of s, or of both.
C31_PatternMatchIgnoresCase ==
    call.op = "patternMatch" =>
        LET p == call.in[1]
            s == call.in[2]
        IN  /\ call.out = globMatch(ToLower(p), ToLower(s))
            /\ \A q \in {p, ToUpper(p), ToLower(p)}, r \in {s, ToUpper(s), ToLower(s)} :
                 patternMatch(q, r) = call.out

\* A pattern and a subject that match only when case is ignored.
C31_Witness ==
    /\ call.op = "patternMatch"
    /\ call.out = TRUE
    /\ ~globMatch(call.in[1], call.in[2])
    /\ ToUpper(call.in[1]) # call.in[1]
    /\ ToLower(call.in[2]) # call.in[2]

(* -------------------------------- sleeping ----------------------------- *)

\* C37: a task suspends for the poll interval exactly once between two
\* consecutive rounds and never after its terminal round: after n rounds a
\* task that has reached a terminal state has slept n - 1 times, for good,
\* and a task that is still polling has slept n - 1 times while it is about
\* to sleep and n times once it is in its next round.
C37_OneSleepBetweenRounds ==
    \A t \in Tasks :
        Started(t) =>
            /\ state[t] # "Polling" => slept[t] = Len(hist[t]) - 1
            /\ state[t] = "Polling" =>
                 slept[t] = IF pc[t] \in {"sleep", "sleepProbe"}
                            THEN Len(hist[t]) - 1
                            ELSE Len(hist[t])

\* A resource task and a cluster-endpoint task that ended after MaxRounds
\* rounds and MaxRounds - 1 sleeps and have returned.
C37_Witness ==
    \E t \in Tasks, u \in Tasks :
        /\ Obj(t).kind = "ClusterResource"
        /\ Obj(u).kind = "ClusterEndpoint"
        /\ pc[t] = "done" /\ pc[u] = "done"
        /\ Len(hist[t]) = MaxRounds /\ Len(hist[u]) = MaxRounds
        /\ slept[t] = MaxRounds - 1 /\ slept[u] = MaxRounds - 1

(* --------------------------- no declared check ------------------------- *)

\* C40: with zero declared checks Validate starts no task (the wait counter
\* stays 0), performs no List call (no snapshot entry, no List error), and
\* when it returns it returns Succeeded with an empty Summaries list.
C40_NoChecksSucceeds ==
    GetValidationObjects = <<>> =>
        /\ Tasks = {}
        /\ wg = 0
        /\ DOMAIN ClusterResources = {}
        /\ ~listErrored
        /\ received = <<>>
        /\ Returned => result.Status = "succeeded" /\ result.Summaries = <<>>

\* Validate has returned Succeeded for a specification without checks.
C40_Witness ==
    /\ GetValidationObjects = <<>>
    /\ Returned
    /\ result.Status = "succeeded"
    /\ result.Summaries = <<>>
    /\ finished = "closed"

(* ------------------------ independence of the tasks -------------------- *)

\* C32: what a task evaluates in a round is the scope-filtered list of its
\* own List call of that round: while the task is between its List call and
\* its evaluation, no step of another task changes the instances it is going
\* to evaluate, for every pair of declared checks.
C32_OtherRefreshDoesNotChangeTheRound ==
    [][\A t \in Tasks :
         (pc[t] = "eval" /\ pc'[t] = "eval") =>
            FilterScope(Obj(t), ClusterResources'[Obj(t).Name])
              = FilterScope(Obj(t), ClusterResources[Obj(t).Name])]_vars

\* The resource names of the declared checks are pairwise different.
DistinctNames ==
    \A t \in Tasks, u \in Tasks :
        (t # u /\ Obj(t).kind = "ClusterResource" /\ Obj(u).kind = "ClusterResource")
            => Obj(t).Name # Obj(u).Name

\* C32 for the specifications whose checks have pairwise different names.
C32_WhenNamesDiffer ==
    [][DistinctNames =>
         \A t \in Tasks :
            (pc[t] = "eval" /\ pc'[t] = "eval") =>
               FilterScope(Obj(t), ClusterResources'[Obj(t).Name])
                 = FilterScope(Obj(t), ClusterResources[Obj(t).Name])]_vars

(* ---------------------- terminal states and summaries ------------------ *)

LastRound(t) == hist[t][Len(hist[t])]

\* C33: a task is Succeeded only after a clean round: for every
\* configuration of thresholds, no resource task is Succeeded with a last
\* round in which a field or condition predicate failed.
C33_SucceededOnlyInCleanRound ==
    \A t \in Tasks :
        (Obj(t).kind = "ClusterResource" /\ state[t] = "Succeeded") =>
            /\ hist[t] # <<>>
            /\ LastRound(t)
            /\ summary[t].FieldValidation = <<>>
            /\ summary[t].ConditionValidation = <<>>

\* C33 for the tasks whose effective thresholds are positive.
C33_WhenThresholdsPositive ==
    \A t \in Tasks :
        (PositiveThresholds(t) /\ state[t] = "Succeeded") =>
            /\ hist[t] # <<>>
            /\ LastRound(t)
            /\ summary[t].FieldValidation = <<>>
            /\ summary[t].ConditionValidation = <<>>

\* The number of entries of seq equal to x.
Occurrences(seq, x) == Cardinality({i \in 1..Len(seq) : seq[i] = x})

\* The summaries taken off v.Waiter.summary from task t so far.
Delivered(t) == Occurrences(summaries, summary[t])

\* C34: in the revision with the summary collector and with positive
\* effective thresholds, a task emits a summary iff it ends Failed: a
\* Succeeded task has an empty summary and sends nothing, a Polling task has
\* sent nothing, and a Failed task has a non-empty summary, with its GVR and
\* the failing predicates of its last round, which it is sending or has
\* delivered exactly once before its failure signal and its return.
C34_SummaryIffFailed ==
    variant = "summary" =>
        \A t \in Tasks :
            PositiveThresholds(t) =>
                /\ state[t] = "Succeeded" =>
                     /\ summary[t] = EmptySummary
                     /\ pc[t] \in {"return", "done"}
                /\ state[t] = "Polling" =>
                     /\ pc[t] # "sendSummary"
                     /\ summary[t] # EmptySummary => Delivered(t) = 0
                /\ state[t] = "Failed" =>
                     /\ summary[t] # EmptySummary
                     /\ summary[t].GVR = groupVersionResource(Obj(t).APIVersion, Obj(t).Name)
                     /\ Len(summary[t].FieldValidation) + Len(summary[t].ConditionValidation) > 0
                     /\ ~LastRound(t)
                     /\ pc[t] \in {"sendSummary", "sendError", "return", "done"}
                     /\ Delivered(t) = IF pc[t] = "sendSummary" THEN 0 ELSE 1

\* A task that failed has delivered its summary and returned, and a task
\* that succeeded has returned without a summary.
C34_Witness ==
    /\ variant = "summary"
    /\ AllThresholdsPositive
    /\ \E t \in Tasks, u \in Tasks :
         /\ state[t] = "Failed" /\ pc[t] = "done"
         /\ summaries = <<summary[t]>>
         /\ state[u] = "Succeeded" /\ pc[u] = "done"

\* The statement of C35 for the tasks chosen by the test Chosen.
FinishedClaim(Chosen(_)) ==
    /\ finished = "closed" =>
         /\ wg = 0
         /\ \A t \in Tasks : pc[t] = "done"
    /\ (variant = "summary" /\ Returned /\ result.Status = "succeeded"
          /\ \A t \in Tasks : Chosen(t)) =>
         /\ \A t \in Tasks :
              state[t] = "Failed" => Occurrences(result.Summaries, summary[t]) = 1
         /\ \A i \in 1..Len(result.Summaries) :
              \E t \in Tasks : state[t] = "Failed" /\ summary[t] = result.Summaries[i]

AnyTask(t) == TRUE

\* C35: the "all tasks finished" signal is raised only after every task has
\* returned, with no summary or failure signal undelivered; and when Validate
\* returns Succeeded, Summaries holds exactly one summary for each check that
\* ended Failed and nothing else.
C35_FinishedAfterAllDelivered == FinishedClaim(AnyTask)

\* C35 for the runs in which every effective threshold is positive.
C35_WhenThresholdsPositive == FinishedClaim(PositiveThresholds)

\* C36: the Status Validate returns is decided by the per-round results and
\* List outcomes of the tasks alone: the state of a task is a function of its
\* own rounds; Succeeded is returned only when every task has returned and
\* none had a List error or a required failure to signal; Failed is returned
\* only on a signal that its task raises from its own rounds. (So no
\* interleaving of the same results returns the other Status.)
C36_StatusIndependentOfInterleaving ==
    /\ \A t \in Tasks :
         hist[t] # <<>> =>
            state[t] = Decide(TrailingRun(hist[t], TRUE), TrailingRun(hist[t], FALSE),
                              SuccessThresholdOf(t), FailureThresholdOf(t))
    /\ (Returned /\ result.Status = "succeeded") =>
         \A t \in Tasks :
            /\ pc[t] = "done"
            /\ errRound[t] = 0
            /\ ~(Obj(t).Required /\ state[t] = "Failed")
    /\ (Returned /\ result.Status = "failed") =>
         LET m == result.Message
         IN  \/ m.cause = "list" /\ errRound[m.task] # 0
             \/ m.cause = "threshold" /\ Obj(m.task).Required /\ state[m.task] = "Failed"

\* Validate has returned Failed on the signal of one required task while
\* another required task has failed too and is about to raise its own.
C36_Witness ==
    /\ Returned
    /\ result.Status = "failed"
    /\ result.Message.cause = "threshold"
    /\ \E u \in Tasks :
         /\ u # result.Message.task
         /\ Obj(u).Required
         /\ state[u] = "Failed"
         /\ pc[u] \in {"sendSummary", "sendError"}

(* ------------------------ rounds without instances -------------------- *)

\* The counters after n consecutive rounds of the same result.
RECURSIVE CountsAfter(_, _)
CountsAfter(n, failed) ==
    IF n = 0 THEN [success |-> 0, failure |-> 0]
    ELSE LET c == CountsAfter(n - 1, failed)
         IN  NextCounts(c.success, c.failure, failed)

\* C38: a round in which no instance is in scope (no instances, or all of
\* them filtered out) is a clean round whatever predicates are declared:
\* validateResources returns the empty summary and no error, so a check
\* whose rounds are all of this kind is Polling before successThreshold
\* rounds and Succeeded at the successThreshold-th round.
C38_RoundWithoutInstancesIsClean ==
    (call.op = "round" /\ call.out.resources = <<>>) =>
        /\ ~call.out.result.failed
        /\ ~call.out.result.panic
        /\ call.out.result.summary = EmptySummary
        /\ \A S \in 1..MaxRounds, F \in 1..MaxRounds :
           \A n \in 1..S :
             LET c == CountsAfter(n, call.out.result.failed)
             IN  Decide(c.success, c.failure, S, F) =
                    IF n = S THEN "Succeeded" ELSE "Polling"

\* A round of a check with predicates on a snapshot entry whose instances
\* are all out of scope.
C38_Witness ==
    /\ call.op = "round"
    /\ call.in[2] # <<>>
    /\ call.out.resources = <<>>
    /\ call.in[1].Fields # <<>>
    /\ validateResources(call.in[1], call.in[2], TRUE).failed

(* ------------------------- Validate called again ---------------------- *)

\* The tasks of the current call have all returned.
AllTasksDone == \A t \in Tasks : pc[t] = "done"

\* The statement of C39 for the call number n of Validate on one Validator.
CallDecidesFromItsOwnTasks(n) ==
    prior.calls = n =>
        /\ finished # "panic"
        /\ prior.got = <<>>
        /\ (Returned /\ result.Status = "succeeded") => AllTasksDone
        /\ (Returned /\ result.Status = "failed") =>
              /\ received # <<>>
              /\ result.Message = received[Len(received)]

\* C39: a second call of Validate on the same Validator, after the first
\* returned, decides from the tasks of the second call only: it does not
\* return before they have returned or raised a failure signal, it receives
\* no summary or failure signal of a task of the first call, and closing
\* the completion channel does not panic.
C39_SecondCallDecidesFromItsOwnTasks == CallDecidesFromItsOwnTasks(2)

\* C39's statement for the first call.
C39_OnTheFirstCall == CallDecidesFromItsOwnTasks(1)

====
